---- MODULE Spec2Model ----
(***************************************************************************)
(* Real-time delivery core of the babysitter backend:                      *)
(*   - NotificationService (backend/app/services/notification_service.py)  *)
(*     and the /ws/parent/{parent_id} handler (backend/app/main.py);       *)
(*   - WebRTCSignalingService and the /ws/emergency-call/{session_id}      *)
(*     handler (backend/app/api/webrtc_signaling.py).                      *)
(* and the safety assessment that produces the alerts:                     *)
(*   - SafetyService (backend/app/services/safety_service.py) with         *)
(*     LLMService.analyze_safety (backend/app/services/llm_service.py);    *)
(*   - the HTTP handlers that raise and store alerts (backend/app/api/:     *)
(*     chat.py, images.py, emergency.py, alerts.py, sessions.py).          *)
(***************************************************************************)
EXTENDS Integers, Sequences, FiniteSets, TLC

\* ------------------------------------------------------------------ bounds
NumParents == 2
NumPConn == 3
NumTasks == 1

NumSessions == 1
NumSConn == 3
MaxMsgs == 3

MaxAlerts == 2
MaxRows == 2
MaxInFlight == 1
MaxDuration == 240

Parents == 1..NumParents
PConn == 1..NumPConn
Tasks == 1..NumTasks
Sessions == 1..NumSessions
SConn == 1..NumSConn

\* the value that stands for "no socket" (an absent dict entry)
NoConn == 0

VARIABLES
    active_connections, \* NotificationService.active_connections: parent_id -> set of WebSocket
    pws,                \* per parent WebSocket: position of websocket_parent, parent_id, peer liveness
    precv,              \* per parent WebSocket: the frames the server has sent on it
    bt                  \* the running notify_parent / send_activity_update coroutines

VARIABLES
    connections,        \* WebRTCSignalingService.connections: session_id -> role slot -> WebSocket
    sws,                \* per signaling WebSocket: position of the handler, session_id, its local "role"
    srecv,              \* per signaling WebSocket: the messages the server has sent on it
    nmsgs,              \* number of client messages handled so far
    slog                \* per signaling handler: the warnings and errors relay_message logged for it

VARIABLES
    sa,                 \* the assess_message_safety call in progress: position and locals
    ia,                 \* the analyze_image request in progress: position and locals
    aa                  \* the last create_activity_alert call: its argument and result

VARIABLES
    session_db,         \* the sessions table: session_id -> is_active, parent_id
    alert_db,           \* the safety_alerts table: the rows in the order of their ids
    message_db,         \* the number of rows of the messages table
    cq,                 \* the chat request in progress: position and locals
    eq                  \* the panic-button request in progress: position and locals

nvars == <<active_connections, pws, precv, bt>>
svars == <<connections, sws, srecv, nmsgs, slog>>
avars == <<sa, ia, aa>>
apivars == <<session_db, alert_db, message_db, cq, eq>>

\* ------------------------------------------------- NotificationService

\* a connect that replaces the bucket by one holding the new socket only
registerOverwrite(ac, p, w) ==
    [q \in (DOMAIN ac) \cup {p} |-> IF q = p THEN {w} ELSE ac[q]]

\* connect, lines 31-34: create the bucket if absent, add the socket
register(ac, p, w) ==
    [q \in (DOMAIN ac) \cup {p} |->
        IF q = p THEN (IF p \in DOMAIN ac THEN ac[p] ELSE {}) \cup {w} ELSE ac[q]]

\* disconnect without the "clean up empty sets" step
disconnectKeepEmpty(ac, p, w) ==
    IF p \in DOMAIN ac THEN [ac EXCEPT ![p] = ac[p] \ {w}] ELSE ac

\* disconnect, lines 45-50: discard, then delete the bucket if it became empty
disconnect(ac, p, w) ==
    IF p \in DOMAIN ac
    THEN LET s == ac[p] \ {w} IN
         IF s = {} THEN [q \in (DOMAIN ac) \ {p} |-> ac[q]]
                   ELSE [ac EXCEPT ![p] = s]
    ELSE ac

\* is_parent_connected, line 156
is_parent_connected(ac, p) == p \in DOMAIN ac /\ Cardinality(ac[p]) > 0

\* a cleanup loop that forgets the failed sockets
PruneNone(ac, p, failed) == ac

\* a cleanup that resets the whole registry when a send failed
PruneClear(ac, p, failed) == IF failed = {} THEN ac ELSE << >>

RECURSIVE Prune(_, _, _)
\* "for ws in disconnected: self.disconnect(parent_id, ws)", lines 87-88
Prune(ac, p, failed) ==
    IF failed = {} THEN ac
    ELSE LET w == CHOOSE x \in failed : TRUE IN
         Prune(disconnect(ac, p, w), p, failed \ {w})

\* websocket.send_json succeeds exactly when the peer is still there and the
\* handler of the socket has not ended
SendOk(w) == pws[w].alive /\ pws[w].st = "open"

\* the message a broadcast pushes: "type" tag plus the content of this call
\* ("alert" from notify_parent, "activity_update" from send_activity_update)
Payload(t) == [type |-> bt[t].kind, id |-> t]

IdleTask == [pc |-> "idle", parent |-> 1, kind |-> "alert", cur |-> NoConn,
             pending |-> {}, itSize |-> 0, detached |-> FALSE, disconnected |-> {},
             delivered |-> {}, snap |-> {}, after |-> {}]

\* Effect of a registry mutation ac -> ac2 on the set iterators of the suspended
\* broadcasts: a bucket that is deleted detaches the iterator from the dict entry
\* (a later bucket of that parent is another set object); a removed socket is no
\* longer yielded; an added socket is yielded or not, depending on where it lands
\* in the hash table (addYield).
IterAfter(b, ac, ac2, addYield) ==
    [t \in Tasks |->
        IF b[t].pc # "sending" \/ b[t].detached THEN b[t]
        ELSE LET p == b[t].parent IN
             IF p \notin DOMAIN ac2
             THEN [b[t] EXCEPT !.detached = TRUE]
             ELSE IF ac2[p] = ac[p] THEN b[t]
             ELSE [b[t] EXCEPT !.pending = (b[t].pending \cap ac2[p])
                                           \cup (IF addYield THEN ac2[p] \ ac[p] ELSE {})]]

\* ------------------------------------------------- WebRTCSignalingService

Types == {"offer", "answer", "ice-candidate", "call-ended", "heartbeat", "status"}
\* a relay branch that forwards every kind
RelayedAll == Types
\* line 146: the kinds relay_message is called for
Relayed == {"offer", "answer", "ice-candidate"}
\* values of an explicit "role" field: the two roles, another string, the empty
\* string and JSON null
RoleVals == {"child", "parent", "observer", "", "null"}
\* a frame that json.loads or message.get rejects
Malformed == [malformed |-> TRUE]
\* the JSON objects a client sends: a "type", a payload, optionally a "role"
\* (the value of "role" matters only in a message that is neither offer nor answer
\* and is not inspected per kind: every value comes with one kind, and one object
\* of each other kind carries a role)
MsgIn == {[type |-> t, sdp |-> "v0"] : t \in Types}
         \cup {[type |-> "status", sdp |-> "v0", role |-> r] : r \in RoleVals}
         \cup {[type |-> "ice-candidate", sdp |-> "v0", role |-> "parent"],
               [type |-> "offer", sdp |-> "v0", role |-> "parent"],
               [type |-> "heartbeat", sdp |-> "v0", role |-> "child"]}
         \cup {Malformed}

\* Python value of the handler's local "role": None, or the string it was given
None == "None"
FromJson(r) == IF r = "null" THEN None ELSE r
Truthy(role) == role # None /\ role # ""

\* the role slots of a session, empty when the dict has no such key
Slots(conns, s) == IF s \in DOMAIN conns THEN conns[s] ELSE << >>

\* connect_child / connect_parent, lines 37-40 and 47-50: create the session
\* entry if absent and store the socket in the slot, replacing any occupant
bind(conns, s, slot, w) ==
    [x \in (DOMAIN conns) \cup {s} |->
        IF x = s
        THEN [r \in (DOMAIN Slots(conns, s)) \cup {slot} |->
                 IF r = slot THEN w ELSE conns[s][r]]
        ELSE conns[x]]

\* a disconnect that leaves the emptied session entry in the dict
sdisconnectKeepEmpty(conns, s, role) ==
    IF s \in DOMAIN conns /\ role \in DOMAIN conns[s]
    THEN [conns EXCEPT ![s] = [r \in (DOMAIN conns[s]) \ {role} |-> conns[s][r]]]
    ELSE conns

\* WebRTCSignalingService.disconnect, lines 55-63: delete the slot named by role,
\* then delete the session entry if it has no slot left
sdisconnect(conns, s, role) ==
    IF s \in DOMAIN conns
    THEN LET slots == [r \in (DOMAIN conns[s]) \ {role} |-> conns[s][r]] IN
         IF DOMAIN slots = {} THEN [x \in (DOMAIN conns) \ {s} |-> conns[x]]
                              ELSE [conns EXCEPT ![s] = slots]
    ELSE conns

\* the slot connect_* is called for, lines 131-143
\* (a stated role other than 'child' goes to connect_parent)
SlotFor(m) ==
    IF m.type = "offer" THEN "child"
    ELSE IF m.type = "answer" THEN "parent"
    ELSE IF m.role = "child" THEN "child" ELSE "parent"

\* the handler's "role" after lines 128-143 for a handler whose role is None
RoleFor(m) ==
    IF m.type = "offer" THEN "child"
    ELSE IF m.type = "answer" THEN "parent"
    ELSE IF "role" \in DOMAIN m THEN FromJson(m.role) ELSE None

\* lines 75 and 153: the opposite role
Opposite(role) == IF role = "child" THEN "parent" ELSE "child"

\* a relay that strips the "role" field before forwarding
RelayedFormNoRole(m) == [k \in (DOMAIN m) \ {"role"} |-> m[k]]

\* relay_message line 88: the message is forwarded as received
RelayedForm(m) == m

\* line 156-159: the notice sent to the other peer
CallEnded == [type |-> "call-ended", reason |-> "Peer ended call"]
\* line 166
HeartbeatAck == [type |-> "heartbeat-ack"]

\* an ack that goes to the other peer instead
HeartbeatToPeer(conns, s, role, w) ==
    IF s \in DOMAIN conns /\ Opposite(role) \in DOMAIN conns[s]
    THEN conns[s][Opposite(role)] ELSE w

\* line 166: the ack is sent on the handler's own socket
HeartbeatTo(conns, s, role, w) == w

\* send_json on a socket whose handler has ended always raises; on an open one
\* it succeeds unless the peer is gone (sendOk)
SSendOk(w, sendOk) == sendOk /\ sws[w].st \in {"open", "break", "except"}

\* a relay that hands a message for an empty slot to a waiting connection of the
\* session that holds no slot yet
SendToSlotOrWaiting(conns, s, to, msg, sendOk) ==
    IF s \in DOMAIN conns /\ to \in DOMAIN conns[s]
    THEN IF SSendOk(conns[s][to], sendOk)
         THEN [srecv EXCEPT ![conns[s][to]] = Append(@, msg)] ELSE srecv
    ELSE LET waiting == {y \in SConn : /\ sws[y].st = "open" /\ sws[y].session = s
                                        /\ \A r \in DOMAIN Slots(conns, s) : conns[s][r] # y} IN
         IF waiting = {} THEN srecv
         ELSE [srecv EXCEPT ![CHOOSE y \in waiting : TRUE] = Append(@, msg)]

\* a relay that puts the message in front of what the recipient already got
SendToSlotFront(conns, s, to, msg, sendOk) ==
    IF s \in DOMAIN conns /\ to \in DOMAIN conns[s] /\ SSendOk(conns[s][to], sendOk)
    THEN [srecv EXCEPT ![conns[s][to]] = <<msg>> \o @]
    ELSE srecv

\* srecv after sending msg to the occupant of slot "to" of session s, if any
SendToSlot(conns, s, to, msg, sendOk) ==
    IF s \in DOMAIN conns /\ to \in DOMAIN conns[s] /\ SSendOk(conns[s][to], sendOk)
    THEN [srecv EXCEPT ![conns[s][to]] = Append(@, msg)]
    ELSE srecv

\* relay_message lines 77-91, what happens to a message for slot "to": a logged
\* warning and no send when the session or the slot is absent, a send, or a send
\* that raises and is logged as an error
RelayOutcome(conns, s, to, sendOk) ==
    IF ~(s \in DOMAIN conns /\ to \in DOMAIN conns[s]) THEN "dropped"
    ELSE IF SSendOk(conns[s][to], sendOk) THEN "relayed" ELSE "failed"

\* a relay that, as the broadcaster does, removes the connection whose send failed
AfterRelayPrunes(conns, s, to, outcome) ==
    IF outcome = "failed" THEN sdisconnect(conns, s, to) ELSE conns

\* relay_message lines 77-91: the map is only read: the two membership tests, the
\* lookup of the recipient and the except branch assign nothing
AfterRelay(conns, s, to, outcome) == conns

\* a relay_message without the try/except: the failed send reaches the handler
RelayStRaises(outcome) == IF outcome = "failed" THEN "except" ELSE "open"

\* relay_message lines 85-91 and the handler's line 147: whatever the outcome,
\* relay_message returns normally and the receive loop goes on
RelaySt(outcome) == "open"

\* the frame a client sends as its n-th message overall: the payload names the
\* sending client and the position of the message, the rest is the client's choice
Stamp(m, w, n) == IF m = Malformed THEN m ELSE [m EXCEPT !.sdp = [from |-> w, n |-> n]]

\* ------------------------------------------------- SafetyService

\* Text is a sequence of characters, as Python's str is.

\* SafetyService.CONCERN_KEYWORDS, safety_service.py lines 19-23
CONCERN_KEYWORDS ==
    << <<"h", "u", "r", "t">>,
       <<"p", "a", "i", "n">>,
       <<"b", "l", "e", "e", "d", "i", "n", "g">>,
       <<"f", "e", "l", "l">>,
       <<"s", "i", "c", "k">>,
       <<"s", "c", "a", "r", "e", "d">>,
       <<"a", "f", "r", "a", "i", "d">>,
       <<"s", "t", "r", "a", "n", "g", "e", "r">>,
       <<"a", "l", "o", "n", "e">>,
       <<"h", "e", "l", "p">>,
       <<"e", "m", "e", "r", "g", "e", "n", "c", "y">>,
       <<"b", "r", "o", "k", "e", "n">>,
       <<"f", "i", "r", "e">>,
       <<"b", "l", "o", "o", "d">>,
       <<"c", "r", "y", "i", "n", "g">>,
       <<"c", "a", "n", "'", "t", " ", "b", "r", "e", "a", "t", "h", "e">>,
       <<"c", "h", "e", "s", "t", " ", "p", "a", "i", "n">>,
       <<"d", "i", "z", "z", "y">> >>

\* SafetyService.URGENT_KEYWORDS, safety_service.py lines 25-28
URGENT_KEYWORDS ==
    << <<"e", "m", "e", "r", "g", "e", "n", "c", "y">>,
       <<"9", "1", "1">>,
       <<"c", "a", "n", "'", "t", " ", "b", "r", "e", "a", "t", "h", "e">>,
       <<"c", "h", "e", "s", "t", " ", "p", "a", "i", "n">>,
       <<"b", "l", "e", "e", "d", "i", "n", "g", " ", "b", "a", "d", "l", "y">>,
       <<"u", "n", "c", "o", "n", "s", "c", "i", "o", "u", "s">>,
       <<"f", "i", "r", "e">>,
       <<"s", "m", "o", "k", "e">>,
       <<"p", "o", "i", "s", "o", "n">>,
       <<"o", "v", "e", "r", "d", "o", "s", "e">> >>

\* vision_service.py line 334
VisionConcernKeywords ==
    << <<"d", "a", "n", "g", "e", "r">>,
       <<"u", "n", "s", "a", "f", "e">>,
       <<"c", "o", "n", "c", "e", "r", "n">>,
       <<"i", "n", "j", "u", "r", "y">>,
       <<"i", "n", "a", "p", "p", "r", "o", "p", "r", "i", "a", "t", "e">> >>

\* messages a child sends
MsgBored == <<"I", "'", "m", " ", "a", " ", "l", "i", "t", "t", "l", "e", " ", "b", "o", "r", "e", "d">>

MsgFell == <<"I", " ", "f", "e", "l", "l", " ", "a", "n", "d", " ", "I", "'", "m", " ", "b", "l", "e", "e", "d", "i", "n", "g">>

MsgFire == <<"T", "h", "e", "r", "e", " ", "i", "s", " ", "a", " ", "F", "I", "R", "E">>

MsgTummy == <<"m", "y", " ", "t", "u", "m", "m", "y", " ", "h", "u", "r", "t", "s">>

Msg911 == <<"c", "a", "l", "l", " ", "9", "1", "1">>

MsgHello == <<"h", "e", "l", "l", "o">>

Messages == {MsgBored, MsgFell, MsgFire, MsgTummy, Msg911, MsgHello}

\* what the vision model says about an image
SeenKnife == <<"A", " ", "k", "n", "i", "f", "e", ":", " ", "D", "A", "N", "G", "E", "R">>

SeenCat == <<"a", " ", "c", "a", "t">>

VisionTexts == {SeenKnife, SeenCat, << >>}

\* str.lower on one character
LowerChar(c) ==
    CASE c = "A" -> "a"
      [] c = "B" -> "b"
      [] c = "C" -> "c"
      [] c = "D" -> "d"
      [] c = "E" -> "e"
      [] c = "F" -> "f"
      [] c = "G" -> "g"
      [] c = "H" -> "h"
      [] c = "I" -> "i"
      [] c = "J" -> "j"
      [] c = "K" -> "k"
      [] c = "L" -> "l"
      [] c = "M" -> "m"
      [] c = "N" -> "n"
      [] c = "O" -> "o"
      [] c = "P" -> "p"
      [] c = "Q" -> "q"
      [] c = "R" -> "r"
      [] c = "S" -> "s"
      [] c = "T" -> "t"
      [] c = "U" -> "u"
      [] c = "V" -> "v"
      [] c = "W" -> "w"
      [] c = "X" -> "x"
      [] c = "Y" -> "y"
      [] c = "Z" -> "z"
      [] OTHER -> c


\* str.lower
Lower(s) == [i \in DOMAIN s |-> LowerChar(s[i])]

\* "kw in s" on str: kw occurs in s as a contiguous run of characters
Contains(kw, s) ==
    \E i \in 0..(Len(s) - Len(kw)) : SubSeq(s, i + 1, i + Len(kw)) = kw

\* any(keyword in text for keyword in keywords)
AnyKeyword(keywords, text) == \E k \in DOMAIN keywords : Contains(keywords[k], text)

\* a scan that forgets to lower-case the message
ScanAsIs(keywords, message) == AnyKeyword(keywords, message)

\* assess_message_safety lines 60-64: the scan of message.lower()
Scan(keywords, message) == AnyKeyword(keywords, Lower(message))

\* AlertLevel, models/alert.py lines 12-17
INFO == "info"
WARNING == "warning"
URGENT == "urgent"
EMERGENCY == "emergency"
AlertLevel == {INFO, WARNING, URGENT, EMERGENCY}

\* a dict key that is not there
Absent == "absent"

\* dict.get(key, default) and dict.get(key): a key that is present yields its
\* value, also when that value is None (JSON null)
Get(d, key, default) == IF d[key] = Absent THEN default ELSE d[key]
GetOrNone(d, key) == Get(d, key, None)

\* what the classifier may put under "concern_level": the five levels and a
\* string that is none of them
ConcernVals == {"none", "low", "medium", "high", "critical", "banana"}

\* the JSON objects the classifier may answer with: each expected key is absent or
\* carries a value; the free-text keys carry a string or null
Docs == [concern_level : ConcernVals \cup {Absent},
         parent_alert : {"true", "false", Absent},
         is_safe : {"true", "false", Absent},
         reason : {"why", None, Absent},
         recommended_response : {"say", None, Absent}]

\* JSON documents: an object, or a value of another type
JsonValues == {[json |-> "object", fields |-> d] : d \in Docs}
              \cup {[json |-> j] : j \in {"array", "number", "string", "null"}}

\* the markdown fence that opens a json code block, and the bare fence (three
\* backquotes) that closes one
FenceJson == [tok |-> "fence_json"]
Fence == [tok |-> "fence"]
Prose == [tok |-> "prose"]
Doc(v) == [tok |-> "doc", val |-> v]

\* a well-formed answer of the classifier, used in the fenced variants
SampleDoc == Doc([json |-> "object",
                  fields |-> [concern_level |-> "high", parent_alert |-> "true",
                              is_safe |-> "false", reason |-> "why",
                              recommended_response |-> "say"]])

\* What LLMService.generate hands to analyze_safety, llm_service.py lines 190-308:
\* an exception, or text: a JSON document, prose (its own error strings among
\* them), or text with markdown code fences around something
GenerateOutcomes ==
    {[kind |-> "raise"]}
    \cup {[kind |-> "text", text |-> <<Doc(v)>>] : v \in JsonValues}
    \cup {[kind |-> "text", text |-> t] :
            t \in {<<Prose>>, << >>,
                   <<Doc([json |-> "null"]), Prose>>,
                   <<Prose, FenceJson, SampleDoc, Fence, Prose>>,
                   <<Fence, SampleDoc, Fence>>,
                   <<Prose, Fence, SampleDoc>>,
                   <<FenceJson, Prose, Fence>>,
                   <<FenceJson, SampleDoc, FenceJson, Prose>>}}

HasTok(text, tok) == \E i \in DOMAIN text : text[i] = tok
FirstTok(text, toks) == CHOOSE i \in DOMAIN text : text[i] \in toks /\ \A j \in 1..(i - 1) : text[j] \notin toks
\* text.split(sep)[1] for a sep that occurs in text: what follows the first sep,
\* up to the next one
AfterFirst(text, sep, stops) ==
    LET rest == SubSeq(text, FirstTok(text, {sep}) + 1, Len(text)) IN
    IF \E i \in DOMAIN rest : rest[i] \in stops
    THEN SubSeq(rest, 1, FirstTok(rest, stops) - 1)
    ELSE rest

\* analyze_safety lines 351-354: the inside of the first code fence, if any
\* (the opening fence of a json block also contains the bare fence)
StripFences(text) ==
    IF HasTok(text, FenceJson)
    THEN LET inner == AfterFirst(text, FenceJson, {FenceJson}) IN
         IF HasTok(inner, Fence) THEN SubSeq(inner, 1, FirstTok(inner, {Fence}) - 1)
         ELSE inner
    ELSE IF HasTok(text, Fence)
    THEN AfterFirst(text, Fence, {Fence})
    ELSE text

\* json.loads: the text must be exactly one JSON document
IsJson(text) == Len(text) = 1 /\ text[1].tok = "doc"

\* analyze_safety lines 381-387
FallbackParse == [concern_level |-> "none", parent_alert |-> "false", is_safe |-> "true",
                  reason |-> "Unable to parse safety analysis",
                  recommended_response |-> "I'm here to help! What would you like to do?"]
\* analyze_safety lines 400-406
FallbackUnavailable == [concern_level |-> "none", parent_alert |-> "false", is_safe |-> "true",
                        reason |-> "Safety analysis unavailable",
                        recommended_response |-> "I'm here to help! What would you like to do?"]

\* how the classifier call ended, analyze_safety lines 340-406: generate raised;
\* the text is not JSON (JSONDecodeError); it is JSON but has no .get
\* (AttributeError at line 359, caught at 389); or it is a JSON object
Outcome(g) ==
    IF g.kind = "raise" THEN "exception"
    ELSE LET text == StripFences(g.text) IN
         IF ~IsJson(text) THEN "not_json"
         ELSE IF text[1].val.json # "object" THEN "not_object"
         ELSE "object"

\* LLMService.analyze_safety, lines 340-406: the dict it returns
analyze_safety(g) ==
    IF Outcome(g) = "not_json" THEN FallbackParse
    ELSE IF Outcome(g) = "object" THEN StripFences(g.text)[1].val.fields
    ELSE FallbackUnavailable

\* a mapping with the outcomes of "high" and "medium" exchanged
determine_alert_level_swapped(safety_analysis, has_urgent_keyword, has_concern_keyword) ==
    LET concern_level == Get(safety_analysis, "concern_level", "none") IN
    IF has_urgent_keyword \/ concern_level = "critical" THEN EMERGENCY
    ELSE IF concern_level = "medium" THEN URGENT
    ELSE IF concern_level = "high" \/ has_concern_keyword THEN WARNING
    ELSE INFO

\* a mapping that lets a concern keyword outrank the classifier's "high"
determine_alert_level_kw_first(safety_analysis, has_urgent_keyword, has_concern_keyword) ==
    LET concern_level == Get(safety_analysis, "concern_level", "none") IN
    IF has_urgent_keyword \/ concern_level = "critical" THEN EMERGENCY
    ELSE IF concern_level = "medium" \/ has_concern_keyword THEN WARNING
    ELSE IF concern_level = "high" THEN URGENT
    ELSE INFO

\* SafetyService._determine_alert_level, lines 332-347
determine_alert_level(safety_analysis, has_urgent_keyword, has_concern_keyword) ==
    LET concern_level == Get(safety_analysis, "concern_level", "none") IN
    IF has_urgent_keyword \/ concern_level = "critical" THEN EMERGENCY
    ELSE IF concern_level = "high" THEN URGENT
    ELSE IF concern_level = "medium" \/ has_concern_keyword THEN WARNING
    ELSE IF concern_level = "low" THEN INFO
    ELSE INFO

\* Python truth of a value read from the classifier's dict
PyTrue(v) == v \notin {None, "false", Absent}

\* an alert condition that holds for every message
NeedsAlertAlways(safety_analysis, alert_level) == TRUE

\* an alert condition that looks at the severity only
NeedsAlertLevelOnly(safety_analysis, alert_level) == alert_level # INFO

\* assess_message_safety line 131
NeedsAlert(safety_analysis, alert_level) ==
    PyTrue(GetOrNone(safety_analysis, "parent_alert")) \/ alert_level # INFO

\* a flag that asks for action on every alert above info
RequiresActionAboveInfo(alert_level) == alert_level # INFO

\* assess_message_safety line 146
RequiresAction(alert_level) == alert_level \in {URGENT, EMERGENCY}

\* SafetyAlert(...), models/alert.py lines 64-71: context and ai_assessment are
\* declared str, and pydantic rejects None for them
Validates(context, ai_assessment) == context # None /\ ai_assessment # None

NoAlert == [level |-> "-", requires_action |-> FALSE, context |-> "-", ai_assessment |-> "-"]

\* _generate_contextual_assessment lines 279-313: the generated text, or the
\* classifier's recommended_response when generate raises
Assessment(safety_analysis, genOk) ==
    IF genOk THEN "assessment"
    ELSE Get(safety_analysis, "recommended_response",
             "Immediate parent notification required. Please check on your child.")

\* the coroutine of assess_message_safety before it is called
IdleAssess == [pc |-> "idle", message |-> << >>, has_urgent_keyword |-> FALSE,
               has_concern_keyword |-> FALSE, outcome |-> "-", safety_analysis |-> FallbackParse,
               alert_level |-> INFO, alert |-> NoAlert,
               requires_parent_notification |-> FALSE, is_safe |-> "-", concern_level |-> "-"]

\* ------------------------------------------------- datastore and HTTP handlers

\* SafetyAlertDB(session_id=None, ...), emergency.py line 127
NullId == 0

\* db.query(SessionDB).filter(SessionDB.session_id == session_id).first()
Found(db, session_id) == session_id \in DOMAIN db

\* a session check that does not look at is_active
session_status_found_only(db, session_id) == IF ~Found(db, session_id) THEN 404 ELSE 0

\* chat, chat.py lines 80-88: the status the request is rejected with (0: it is
\* not rejected)
session_status(db, session_id) ==
    IF ~Found(db, session_id) THEN 404
    ELSE IF ~db[session_id].is_active THEN 400
    ELSE 0

\* create_session, sessions.py lines 40-71: the new row
create_session(db, session_id, parent_id) ==
    [q \in (DOMAIN db) \cup {session_id} |->
        IF q = session_id THEN [is_active |-> TRUE, parent_id |-> parent_id] ELSE db[q]]

\* an end_session that flips the flag
end_session_toggles(db, session_id) == [db EXCEPT ![session_id].is_active = ~@]

\* end_session, sessions.py lines 98-117: the update of the row
end_session(db, session_id) == [db EXCEPT ![session_id].is_active = FALSE]

\* SafetyAlertDB(...), models/alert.py lines 20-33: resolved defaults to False;
\* parent_notified is passed as True by the handlers and defaults to False
AlertRow(session_id, alert, parent_notified) ==
    [session_id |-> session_id, alert_level |-> alert.level,
     requires_action |-> alert.requires_action,
     parent_notified |-> parent_notified, resolved |-> FALSE]

\* models/alert.py line 25: session_id is declared nullable=False
Insertable(row) == row.session_id # NullId

\* db.add(row); db.commit(): the commit raises when the datastore fails (commitOk
\* false) or the row breaks a constraint, and the table is as it was
Committed(row, commitOk) == commitOk /\ Insertable(row)
Commit(db, row, commitOk) == IF Committed(row, commitOk) THEN Append(db, row) ELSE db

\* a resolve that flips the flag
resolve_alert_toggles(db, alert_id) == [db EXCEPT ![alert_id].resolved = ~@]

\* resolve_alert, alerts.py lines 69-70
resolve_alert(db, alert_id) == [db EXCEPT ![alert_id].resolved = TRUE]

\* what a client may post to create_alert, alerts.py lines 14-25
CreateInputs == {[level |-> WARNING, requires_action |-> FALSE],
                 [level |-> URGENT, requires_action |-> TRUE]}

\* the messages sent to the chat endpoint
ChatMessages == {MsgFell, MsgBored}

\* the alert of the panic button, emergency.py lines 55-63 and 126-134
PanicAlert == [level |-> EMERGENCY, requires_action |-> TRUE,
               context |-> "Child triggered panic button",
               ai_assessment |-> "Immediate parent notification required"]

\* images.py lines 92-99
ImageUrgentAlert == [level |-> URGENT, requires_action |-> TRUE,
                     context |-> "Image upload",
                     ai_assessment |-> "Image failed safety check"]

\* images.py lines 176-183
ImageWarningAlert == [level |-> WARNING, requires_action |-> TRUE,
                      context |-> "Safety check", ai_assessment |-> "concerns"]

\* the ceiling of create_activity_alert, safety_service.py line 467
CEILING == 120

\* a threshold that already fires at the ceiling
create_activity_alert_at(duration_minutes) ==
    IF duration_minutes >= CEILING
    THEN [level |-> INFO, requires_action |-> FALSE,
          context |-> "Extended session duration",
          ai_assessment |-> "Consider suggesting a break or checking in"]
    ELSE NoAlert

\* create_activity_alert, safety_service.py lines 467-486
create_activity_alert(duration_minutes) ==
    IF duration_minutes > CEILING
    THEN [level |-> INFO, requires_action |-> FALSE,
          context |-> "Extended session duration",
          ai_assessment |-> "Consider suggesting a break or checking in"]
    ELSE NoAlert

\* the durations create_activity_alert is called with
Durations == {0, CEILING - 1, CEILING, CEILING + 1, MaxDuration}

\* the chat request before it arrives. called and updated are the parent_id that
\* notify_parent and send_activity_update were called with (0: not called);
\* alert_id is the row the alert was saved as (0: none); safety_status is the
\* concern_level of the safety result
IdleChat == [pc |-> "idle", status |-> 0, session_id |-> NullId, parent_id |-> 0,
             message |-> << >>, alert |-> NoAlert, called |-> 0, alert_id |-> 0,
             db_failed |-> FALSE, updated |-> 0, safety_status |-> "-", live |-> {}]

\* the panic-button request before it arrives
IdlePanic == [pc |-> "idle", status |-> 0, session_id |-> NullId, parent_id |-> 0,
              alert |-> NoAlert, called |-> 0, alert_id |-> 0, db_failed |-> FALSE,
              success |-> FALSE, raised |-> FALSE]

\* a panic handler that lets the exception of notify_parent through
EmergencyResponseRaises(notifyOk) ==
    [status |-> IF notifyOk THEN 200 ELSE 500, success |-> notifyOk]

\* emergency.py lines 70-111: the try block around notify_parent catches every
\* Exception, and the handler then returns success: True
EmergencyResponse(notifyOk) == [status |-> 200, success |-> TRUE]

\* the analyze_image request before it arrives
IdleImage == [pc |-> "idle", context |-> "-", session_id |-> NullId, parent_id |-> 0,
              alert |-> NoAlert, called |-> 0, alert_id |-> 0, db_failed |-> FALSE]

\* no activity check has been made
IdleActivity == [duration_minutes |-> 0, alert |-> NoAlert]

ImageContexts == {"homework", "game", "safety_check", "show_tell"}

Init ==
    /\ active_connections = << >>
    /\ pws = [w \in PConn |-> [st |-> "new", parent |-> 1, alive |-> TRUE]]
    /\ precv = [w \in PConn |-> << >>]
    /\ bt = [t \in Tasks |-> IdleTask]
    /\ connections = << >>
    /\ sws = [w \in SConn |-> [st |-> "new", session |-> 1, role |-> None]]
    /\ srecv = [w \in SConn |-> << >>]
    /\ nmsgs = 0
    /\ slog = [w \in SConn |-> {}]
    /\ sa = IdleAssess
    /\ ia = IdleImage
    /\ aa = IdleActivity
    /\ session_db = << >>
    /\ alert_db = << >>
    /\ message_db = 0
    /\ cq = IdleChat
    /\ eq = IdlePanic

\* bucket of parent p, empty when the dict has no such key
Bucket(ac, p) == IF p \in DOMAIN ac THEN ac[p] ELSE {}

\* websocket_parent, main.py lines 151-163 and 180-191: connect() accepts and registers; an
\* accept that raises is handled by "except Exception", which calls disconnect
\* (socket handles are opaque: the next connection takes the lowest unused handle)
PConnect(w, p, ok, addYield) ==
    /\ pws[w].st = "new"
    /\ \A v \in PConn : v < w => pws[v].st # "new"
    /\ LET ac2 == IF ok THEN register(active_connections, p, w)
                        ELSE disconnect(active_connections, p, w) IN
       /\ active_connections' = ac2
       /\ bt' = IterAfter(bt, active_connections, ac2, addYield)
    /\ pws' = [pws EXCEPT ![w] = [st |-> IF ok THEN "open" ELSE "done",
                                  parent |-> p, alive |-> ok]]
    /\ UNCHANGED precv
    /\ UNCHANGED <<svars, avars, apivars>>

\* the client goes away (force-close, network loss); the handler has not noticed yet
PPeerClose(w) ==
    /\ pws[w].st = "open"
    /\ pws[w].alive
    /\ pws' = [pws EXCEPT ![w].alive = FALSE]
    /\ UNCHANGED <<active_connections, precv, bt>>
    /\ UNCHANGED <<svars, avars, apivars>>

\* websocket_parent, main.py lines 169 and 176-191: receive_text / send_text raises on a
\* closed channel, both except branches call disconnect, the handler ends
PHandlerEnd(w) ==
    /\ pws[w].st = "open"
    /\ ~pws[w].alive
    /\ LET ac2 == disconnect(active_connections, pws[w].parent, w) IN
       /\ active_connections' = ac2
       /\ bt' = IterAfter(bt, active_connections, ac2, FALSE)
    /\ pws' = [pws EXCEPT ![w].st = "done"]
    /\ UNCHANGED precv
    /\ UNCHANGED <<svars, avars, apivars>>

\* a lookup that creates the bucket it did not find
AfterMissCreates(ac, p) == [q \in (DOMAIN ac) \cup {p} |-> IF q \in DOMAIN ac THEN ac[q] ELSE {}]

\* notify_parent lines 62-64 / send_activity_update lines 98-99: the membership
\* test reads the dict and the call returns; the registry is as it was
AfterMiss(ac, p) == ac

\* notify_parent lines 62-81 / send_activity_update lines 98-110: return when the
\* parent has no bucket; otherwise start iterating the bucket itself and suspend
\* in the first send_json
\* (calls are numbered in the order they start)
BStart(t, p, kind) ==
    /\ bt[t].pc = "idle"
    /\ \A u \in Tasks : u < t => bt[u].pc # "idle"
    /\ IF p \notin DOMAIN active_connections
       THEN bt' = [bt EXCEPT ![t] = [IdleTask EXCEPT !.pc = "returned", !.parent = p,
                                                     !.kind = kind]]
       ELSE \E w \in active_connections[p] :
              bt' = [bt EXCEPT ![t] =
                       [IdleTask EXCEPT !.pc = "sending", !.parent = p, !.kind = kind,
                                        !.cur = w,
                                        !.pending = active_connections[p] \ {w},
                                        !.itSize = Cardinality(active_connections[p]),
                                        !.snap = active_connections[p]]]
    /\ active_connections' = IF p \notin DOMAIN active_connections
                              THEN AfterMiss(active_connections, p)
                              ELSE active_connections
    /\ UNCHANGED <<pws, precv>>
    /\ UNCHANGED <<svars, avars, apivars>>

\* notify_parent lines 79-88 / send_activity_update lines 108-116: the pending
\* send_json completes (or raises and the socket is collected), then the set
\* iterator advances: RuntimeError if the set changed size, the next socket if
\* there is one, else the cleanup loop runs and the call returns
BStep(t) ==
    /\ bt[t].pc = "sending"
    /\ LET b == bt[t]
           w == b.cur
           ok == SendOk(w)
           b1 == [b EXCEPT !.delivered = IF ok THEN @ \cup {w} ELSE @,
                           !.disconnected = IF ok THEN @ ELSE @ \cup {w}]
           changed == b.detached
                      \/ Cardinality(Bucket(active_connections, b.parent)) # b.itSize
       IN
       /\ precv' = IF ok THEN [precv EXCEPT ![w] = Append(@, Payload(t))] ELSE precv
       /\ IF changed
          THEN /\ bt' = [bt EXCEPT ![t] = [b1 EXCEPT !.pc = "raised", !.cur = NoConn,
                              !.after = Bucket(active_connections, b.parent)]]
               /\ UNCHANGED active_connections
          ELSE IF b.pending = {}
          THEN LET ac2 == Prune(active_connections, b.parent, b1.disconnected) IN
               /\ active_connections' = ac2
               /\ bt' = IterAfter([bt EXCEPT ![t] = [b1 EXCEPT !.pc = "returned",
                                        !.cur = NoConn, !.after = Bucket(ac2, b.parent)]],
                                  active_connections, ac2, FALSE)
          ELSE /\ \E n \in b.pending :
                    bt' = [bt EXCEPT ![t] = [b1 EXCEPT !.cur = n, !.pending = @ \ {n}]]
               /\ UNCHANGED active_connections
    /\ UNCHANGED pws
    /\ UNCHANGED <<svars, avars, apivars>>


\* webrtc_signaling_endpoint lines 112-116: accept, role = None
\* (socket handles are opaque: the next connection takes the lowest unused handle)
SOpen(w, s) ==
    /\ sws[w].st = "new"
    /\ \A v \in SConn : v < w => sws[v].st # "new"
    /\ sws' = [sws EXCEPT ![w] = [st |-> "open", session |-> s, role |-> None]]
    /\ UNCHANGED <<connections, srecv, nmsgs, slog>>
    /\ UNCHANGED <<nvars, avars, apivars>>

\* the handler's role is None and this message establishes it, lines 128-137
Binds(role0, m) ==
    role0 = None /\ (m.type \in {"offer", "answer"} \/ "role" \in DOMAIN m)

\* webrtc_signaling_endpoint lines 119-169, one received frame m on socket w: the
\* map, the sent messages, the handler's role and its position afterwards. ok is
\* the outcome of the handler's I/O on its own socket in this iteration (the
\* accept inside connect_child / connect_parent, the heartbeat-ack send), sendOk
\* the outcome of the send to the other peer. A frame that is not a JSON object, an
\* accept or an ack that raises (st "except") and call-ended (st "break") all
\* leave the loop; the finally block runs when the coroutine resumes (SCleanup).
Handle(w, m, ok, sendOk) ==
    LET s == sws[w].session
        role0 == sws[w].role
    IN
    IF m = Malformed
    THEN [conns |-> connections, sent |-> srecv, role |-> role0, st |-> "except",
          log |-> {}]
    ELSE
    LET binds == Binds(role0, m)
        role1 == IF role0 = None THEN RoleFor(m) ELSE role0
        conns1 == IF binds THEN bind(connections, s, SlotFor(m), w) ELSE connections
    IN
    IF binds /\ ~ok
    THEN [conns |-> connections, sent |-> srecv, role |-> role1, st |-> "except",
          log |-> {}]
    ELSE IF Truthy(role1) /\ m.type \in Relayed
    THEN LET outcome == RelayOutcome(conns1, s, Opposite(role1), sendOk) IN
         [conns |-> AfterRelay(conns1, s, Opposite(role1), outcome),
          role |-> role1, st |-> RelaySt(outcome),
          sent |-> SendToSlot(conns1, s, Opposite(role1), RelayedForm(m), sendOk),
          log |-> {outcome} \ {"relayed"}]
    ELSE IF m.type = "call-ended"
    THEN [conns |-> conns1, role |-> role1, st |-> "break", log |-> {},
          sent |-> SendToSlot(conns1, s, Opposite(role1), CallEnded, sendOk)]
    ELSE IF m.type = "heartbeat"
    THEN IF ok
         THEN [conns |-> conns1, role |-> role1, st |-> "open", log |-> {},
               sent |-> [srecv EXCEPT ![HeartbeatTo(conns1, s, role1, w)] =
                                          Append(@, HeartbeatAck)]]
         ELSE [conns |-> conns1, role |-> role1, st |-> "except", log |-> {},
               sent |-> srecv]
    ELSE [conns |-> conns1, role |-> role1, st |-> "open", log |-> {}, sent |-> srecv]

\* one iteration of the receive loop
SRecv(w, m, ok, sendOk) ==
    /\ sws[w].st = "open"
    /\ nmsgs < MaxMsgs
    /\ nmsgs' = nmsgs + 1
    /\ LET h == Handle(w, Stamp(m, w, nmsgs + 1), ok, sendOk) IN
       /\ connections' = h.conns
       /\ srecv' = h.sent
       /\ sws' = [sws EXCEPT ![w].role = h.role, ![w].st = h.st]
       /\ slog' = [slog EXCEPT ![w] = @ \cup h.log]
    /\ UNCHANGED <<nvars, avars, apivars>>

\* lines 177-180: "if role: signaling_service.disconnect(session_id, role)"
Finally(conns, s, role) == IF Truthy(role) THEN sdisconnect(conns, s, role) ELSE conns

\* the finally block of a handler that left its loop
SCleanup(w) ==
    /\ sws[w].st \in {"break", "except"}
    /\ connections' = Finally(connections, sws[w].session, sws[w].role)
    /\ sws' = [sws EXCEPT ![w].st = "done"]
    /\ UNCHANGED <<srecv, nmsgs, slog>>
    /\ UNCHANGED <<nvars, avars, apivars>>

\* lines 121 and 171-180: receive_text raises WebSocketDisconnect, finally runs
SHandlerEnd(w) ==
    /\ sws[w].st = "open"
    /\ connections' = Finally(connections, sws[w].session, sws[w].role)
    /\ sws' = [sws EXCEPT ![w].st = "done"]
    /\ UNCHANGED <<srecv, nmsgs, slog>>
    /\ UNCHANGED <<nvars, avars, apivars>>

\* --------------------------------------------------------- SafetyService

\* assess_message_safety lines 60-104: the locals after the keyword scan, when the
\* coroutine waits for analyze_safety
Scanned(message) ==
    [IdleAssess EXCEPT !.pc = "classifying", !.message = message,
                       !.has_urgent_keyword = Scan(URGENT_KEYWORDS, message),
                       !.has_concern_keyword = Scan(CONCERN_KEYWORDS, message)]

\* a call of assess_message_safety
AStart(message) ==
    /\ sa.pc = "idle"
    /\ sa' = Scanned(message)
    /\ UNCHANGED <<ia, aa>>
    /\ UNCHANGED <<nvars, svars, apivars>>

\* the result dict of assess_message_safety, lines 161-167
Returned(a, safety_analysis, alert) ==
    [a EXCEPT !.pc = "returned", !.alert = alert,
              !.is_safe = Get(safety_analysis, "is_safe", "true"),
              !.concern_level = Get(safety_analysis, "concern_level", "none"),
              !.requires_parent_notification = (alert # NoAlert)]

\* assess_message_safety lines 104-131: analyze_safety returns, the severity is
\* mapped, and either no alert is needed and the call returns, or the coroutine
\* waits for _generate_contextual_assessment
AClassified(g) ==
    /\ sa.pc = "classifying"
    /\ LET safety_analysis == analyze_safety(g)
           alert_level == determine_alert_level(safety_analysis, sa.has_urgent_keyword,
                                                sa.has_concern_keyword)
           a == [sa EXCEPT !.outcome = Outcome(g), !.safety_analysis = safety_analysis,
                           !.alert_level = alert_level] IN
       sa' = IF NeedsAlert(safety_analysis, alert_level)
             THEN [a EXCEPT !.pc = "assessing"]
             ELSE Returned(a, safety_analysis, NoAlert)
    /\ UNCHANGED <<ia, aa>>
    /\ UNCHANGED <<nvars, svars, apivars>>

\* assess_message_safety lines 133-167: the assessment text arrives (or its
\* generation raised and the fallback text is used), the SafetyAlert is built (a
\* field that does not validate raises out of the call) and the call returns
AAssessed(genOk) ==
    /\ sa.pc = "assessing"
    /\ LET context == Get(sa.safety_analysis, "reason", "Safety check triggered")
           ai_assessment == Assessment(sa.safety_analysis, genOk) IN
       sa' = IF Validates(context, ai_assessment)
             THEN Returned(sa, sa.safety_analysis,
                           [level |-> sa.alert_level,
                            requires_action |-> RequiresAction(sa.alert_level),
                            context |-> context, ai_assessment |-> ai_assessment])
             ELSE [sa EXCEPT !.pc = "raised"]
    /\ UNCHANGED <<ia, aa>>
    /\ UNCHANGED <<nvars, svars, apivars>>

\* the caller takes the result; the next message can be assessed
ADone ==
    /\ sa.pc \in {"returned", "raised"}
    /\ sa' = IdleAssess
    /\ UNCHANGED <<ia, aa>>
    /\ UNCHANGED <<nvars, svars, apivars>>

\* ------------------------------------------------- datastore and HTTP handlers

\* the HTTP requests being handled
InFlight ==
    (IF cq.pc = "idle" THEN 0 ELSE 1) + (IF eq.pc = "idle" THEN 0 ELSE 1)
    + (IF ia.pc = "idle" THEN 0 ELSE 1)

\* the server takes another request
Free == InFlight < MaxInFlight

\* the tables have room for the rows of one more request
Room == Len(alert_db) < MaxAlerts /\ message_db < MaxRows

\* create_session, sessions.py lines 23-74: a request that names no child profile
\* or an unknown one is rejected (valid false); otherwise a row with a fresh
\* session_id is inserted
CreateSession(parent_id, valid) ==
    /\ Free
    /\ \E session_id \in Sessions :
          /\ ~Found(session_db, session_id)
          /\ \A s \in Sessions : s < session_id => Found(session_db, s)
          /\ session_db' = IF valid THEN create_session(session_db, session_id, parent_id)
                           ELSE session_db
    /\ UNCHANGED <<alert_db, message_db, cq, eq>>
    /\ UNCHANGED <<nvars, svars, avars>>

\* end_session, sessions.py lines 89-119
EndSession(session_id) ==
    /\ Free
    /\ session_db' = IF Found(session_db, session_id)
                     THEN end_session(session_db, session_id)
                     ELSE session_db
    /\ UNCHANGED <<alert_db, message_db, cq, eq>>
    /\ UNCHANGED <<nvars, svars, avars>>

\* create_alert, alerts.py lines 14-32
CreateAlert(session_id, request) ==
    /\ Free
    /\ Len(alert_db) < MaxAlerts
    /\ alert_db' = Commit(alert_db, AlertRow(session_id, request, FALSE), TRUE)
    /\ UNCHANGED <<session_db, message_db, cq, eq>>
    /\ UNCHANGED <<nvars, svars, avars>>

\* resolve_alert, alerts.py lines 60-72: 404 for an unknown id
ResolveAlert(alert_id) ==
    /\ Free
    /\ alert_db' = IF alert_id \in DOMAIN alert_db
                   THEN resolve_alert(alert_db, alert_id)
                   ELSE alert_db
    /\ UNCHANGED <<session_db, message_db, cq, eq>>
    /\ UNCHANGED <<nvars, svars, avars>>

\* get_alerts / get_unresolved_alerts, alerts.py lines 35-57, get_session,
\* sessions.py lines 77-86: queries
Query ==
    /\ Free
    /\ UNCHANGED <<session_db, alert_db, message_db, cq, eq>>
    /\ UNCHANGED <<nvars, svars, avars>>

\* chat, chat.py lines 80-100: unknown session 404, inactive session 400, then
\* assess_message_safety is called and scans the message
CStart(session_id, message) ==
    /\ cq.pc = "idle"
    /\ sa.pc = "idle"
    /\ Free
    /\ IF session_status(session_db, session_id) # 0
       THEN /\ cq' = [IdleChat EXCEPT !.pc = "responded",
                                      !.status = session_status(session_db, session_id),
                                      !.session_id = session_id, !.message = message]
            /\ UNCHANGED sa
       ELSE /\ Room
            /\ cq' = [IdleChat EXCEPT !.pc = "assess", !.session_id = session_id,
                                      !.message = message,
                                      !.parent_id = session_db[session_id].parent_id,
                                      !.live = Bucket(active_connections,
                                                      session_db[session_id].parent_id)]
            /\ sa' = Scanned(message)
    /\ UNCHANGED <<session_db, alert_db, message_db, eq>>
    /\ UNCHANGED <<ia, aa>>
    /\ UNCHANGED <<nvars, svars>>

\* chat, chat.py lines 95-134: assess_message_safety returned or raised (then the
\* result is the safe default without an alert); with an alert to send the handler
\* calls notify_parent and waits in it
CTake ==
    /\ cq.pc = "assess"
    /\ sa.pc \in {"returned", "raised"}
    /\ LET alert == IF sa.pc = "raised" THEN NoAlert ELSE sa.alert
           requires_parent_notification ==
               sa.pc = "returned" /\ sa.requires_parent_notification
           c == [cq EXCEPT !.safety_status = IF sa.pc = "raised" THEN "none"
                                             ELSE sa.concern_level] IN
       cq' = IF requires_parent_notification /\ alert # NoAlert
             THEN [c EXCEPT !.pc = "notify", !.alert = alert, !.called = cq.parent_id]
             ELSE [c EXCEPT !.pc = "generate"]
    /\ sa' = IdleAssess
    /\ UNCHANGED <<session_db, alert_db, message_db, eq>>
    /\ UNCHANGED <<ia, aa>>
    /\ UNCHANGED <<nvars, svars>>

\* chat, chat.py lines 133-157: notify_parent returned (an exception of it is
\* caught and logged); the alert is saved with parent_notified=True, a failing
\* commit is caught and rolled back; the handler waits for the reply generation
CNotified(commitOk) ==
    /\ cq.pc = "notify"
    /\ LET row == AlertRow(cq.session_id, cq.alert, TRUE) IN
       /\ alert_db' = Commit(alert_db, row, commitOk)
       /\ cq' = [cq EXCEPT !.pc = "generate",
                           !.alert_id = IF Committed(row, commitOk)
                                        THEN Len(alert_db) + 1 ELSE 0,
                           !.db_failed = ~Committed(row, commitOk)]
    /\ UNCHANGED <<session_db, message_db, eq>>
    /\ UNCHANGED avars
    /\ UNCHANGED <<nvars, svars>>

\* chat, chat.py lines 159-326: the reply is generated (every failure has a
\* fallback), the two messages are added and committed; a failing commit is
\* re-raised (500); otherwise send_activity_update is called and the handler waits
CGenerated(commitOk) ==
    /\ cq.pc = "generate"
    /\ IF commitOk
       THEN /\ message_db' = message_db + 2
            /\ cq' = [cq EXCEPT !.pc = "update", !.updated = cq.parent_id]
       ELSE /\ cq' = [cq EXCEPT !.pc = "responded", !.status = 500]
            /\ UNCHANGED message_db
    /\ UNCHANGED <<session_db, alert_db, eq>>
    /\ UNCHANGED avars
    /\ UNCHANGED <<nvars, svars>>

\* chat, chat.py lines 323-349: send_activity_update returned (an exception of it
\* is caught); the response is sent
CUpdated ==
    /\ cq.pc = "update"
    /\ cq' = [cq EXCEPT !.pc = "responded", !.status = 200]
    /\ UNCHANGED <<session_db, alert_db, message_db, eq>>
    /\ UNCHANGED avars
    /\ UNCHANGED <<nvars, svars>>

\* the request is over; the next message can arrive
CDone ==
    /\ cq.pc = "responded"
    /\ cq' = IdleChat
    /\ UNCHANGED <<session_db, alert_db, message_db, eq>>
    /\ UNCHANGED avars
    /\ UNCHANGED <<nvars, svars>>

\* ------------------------------- the chat handler with the notification service

\* the classifier's answer to the chat message of this part: an exception, so that
\* the keyword scan decides
PushOutcomes == {[kind |-> "raise"]}

\* the datastore of this part accepts every write
PushCommits == {TRUE}

\* no broadcast of the handler is running or waits to be taken
NoBroadcast == \A u \in Tasks : bt[u].pc = "idle"

\* a broadcast of this kind is over: it returned, or its iteration raised
BroadcastOver(kind) == \E t \in Tasks : bt[t].pc \in {"returned", "raised"} /\ bt[t].kind = kind

\* chat.py line 134: the handler awaits notify_parent for the parent of the session
CNotifyCall ==
    /\ cq.pc = "notify"
    /\ NoBroadcast
    /\ \E t \in Tasks : BStart(t, cq.parent_id, "alert")

\* chat.py lines 134-157: notify_parent returned or raised (caught at line 135);
\* the handler saves the alert and goes on
CNotifyReturn(commitOk) ==
    /\ BroadcastOver("alert")
    /\ CNotified(commitOk)

\* the coroutine of a notify_parent call that the handler has come back from is gone
BCollect(t) ==
    /\ bt[t].pc \in {"returned", "raised"}
    /\ bt[t].kind = "alert"
    /\ cq.pc \in {"generate", "update"}
    /\ bt' = [bt EXCEPT ![t] = IdleTask]
    /\ UNCHANGED <<active_connections, pws, precv>>
    /\ UNCHANGED <<svars, avars, apivars>>

\* chat.py lines 323-330: the handler awaits send_activity_update for the parent
CUpdateCall ==
    /\ cq.pc = "update"
    /\ NoBroadcast
    /\ \E t \in Tasks : BStart(t, cq.parent_id, "activity_update")

\* chat.py lines 326-357: send_activity_update returned or raised (caught at line
\* 331); the response is sent
CUpdateReturn ==
    /\ BroadcastOver("activity_update")
    /\ CUpdated

\* trigger_emergency, emergency.py lines 43-85: unknown session answers
\* success=False; otherwise the alert row is added and committed first (a commit
\* that raises ends the request with 500), then notify_parent is called
EStart(session_id, commitOk) ==
    /\ eq.pc = "idle"
    /\ Free
    /\ IF ~Found(session_db, session_id)
       THEN /\ eq' = [IdlePanic EXCEPT !.pc = "responded", !.status = 200,
                                       !.session_id = session_id]
            /\ UNCHANGED alert_db
       ELSE LET row == AlertRow(session_id, PanicAlert, TRUE)
                e == [IdlePanic EXCEPT !.session_id = session_id, !.alert = PanicAlert,
                                       !.parent_id = session_db[session_id].parent_id] IN
            /\ Len(alert_db) < MaxAlerts
            /\ alert_db' = Commit(alert_db, row, commitOk)
            /\ eq' = IF Committed(row, commitOk)
                     THEN [e EXCEPT !.pc = "notify", !.alert_id = Len(alert_db) + 1,
                                    !.called = e.parent_id]
                     ELSE [e EXCEPT !.pc = "responded", !.status = 500,
                                    !.db_failed = TRUE]
    /\ UNCHANGED <<session_db, message_db, cq>>
    /\ UNCHANGED avars
    /\ UNCHANGED <<nvars, svars>>

\* trigger_emergency_without_session, emergency.py lines 116-156: the alert row has
\* session_id=None; it is added and committed first, then notify_parent is called
\* with the parent_id of the request
ENoSession(parent_id, commitOk) ==
    /\ eq.pc = "idle"
    /\ Free
    /\ Len(alert_db) < MaxAlerts
    /\ LET row == AlertRow(NullId, PanicAlert, TRUE)
           e == [IdlePanic EXCEPT !.alert = PanicAlert, !.parent_id = parent_id] IN
       /\ alert_db' = Commit(alert_db, row, commitOk)
       /\ eq' = IF Committed(row, commitOk)
                THEN [e EXCEPT !.pc = "notify", !.alert_id = Len(alert_db) + 1,
                               !.called = parent_id]
                ELSE [e EXCEPT !.pc = "responded", !.status = 500, !.db_failed = TRUE]
    /\ UNCHANGED <<session_db, message_db, cq>>
    /\ UNCHANGED avars
    /\ UNCHANGED <<nvars, svars>>

\* emergency.py lines 81-111 and 152-179: notify_parent returned or raised
\* (notifyOk false; the exception is caught); the response is sent
ENotified(notifyOk) ==
    /\ eq.pc = "notify"
    /\ eq' = [eq EXCEPT !.pc = "responded", !.raised = ~notifyOk,
                        !.status = EmergencyResponse(notifyOk).status,
                        !.success = EmergencyResponse(notifyOk).success]
    /\ UNCHANGED <<session_db, alert_db, message_db, cq>>
    /\ UNCHANGED avars
    /\ UNCHANGED <<nvars, svars>>

\* the request is over; the button can be pressed again
EDone ==
    /\ eq.pc = "responded"
    /\ eq' = IdlePanic
    /\ UNCHANGED <<session_db, alert_db, message_db, cq>>
    /\ UNCHANGED avars
    /\ UNCHANGED <<nvars, svars>>

\* check_image_safety, safety_service.py lines 368-435, for an image the endpoint
\* let through (at most 10 MB): unsafe exactly when PIL cannot verify it
check_image_safety(verifies) == [is_safe |-> verifies]

\* vision_service.safety_check_image lines 329-341
safety_check_image(analysis) ==
    [is_safe |-> ~AnyKeyword(VisionConcernKeywords, Lower(analysis))]

\* the message row of analyze_image is added and committed, images.py lines
\* 199-239; a commit (or a reply generation before it) that raises is a 500
ILogged(i, commitOk) == [i EXCEPT !.pc = IF commitOk THEN "responded" ELSE "500"]

\* analyze_image, images.py lines 73-102: unknown session 404, more than 10 MB 400,
\* then check_image_safety; an image that fails it raises an urgent alert and the
\* handler waits in notify_parent; otherwise it waits for the vision analysis
IStart(session_id, tooLarge, verifies, context) ==
    /\ ia.pc = "idle"
    /\ Free
    /\ IF ~Found(session_db, session_id)
       THEN ia' = [IdleImage EXCEPT !.pc = "404", !.context = context,
                                    !.session_id = session_id]
       ELSE IF tooLarge
       THEN ia' = [IdleImage EXCEPT !.pc = "400", !.context = context,
                                    !.session_id = session_id]
       ELSE LET i == [IdleImage EXCEPT !.context = context, !.session_id = session_id,
                                       !.parent_id = session_db[session_id].parent_id] IN
            /\ Room
            /\ ia' = IF ~check_image_safety(verifies).is_safe
                     THEN [i EXCEPT !.pc = "notify", !.alert = ImageUrgentAlert,
                                    !.called = i.parent_id]
                     ELSE [i EXCEPT !.pc = "analyzing"]
    /\ UNCHANGED <<sa, aa>>
    /\ UNCHANGED <<session_db, alert_db, message_db, cq, eq>>
    /\ UNCHANGED <<nvars, svars>>

\* analyze_image, images.py lines 126-243: the vision analysis arrives; a failed
\* one is a 503; in the safety_check context safety_check_image looks at a second
\* analysis and an image that is not safe raises a warning alert, the handler
\* waits in notify_parent; otherwise the reply is logged and sent
IAnalyzed(success, seen, commitOk) ==
    /\ ia.pc = "analyzing"
    /\ IF ~success
       THEN ia' = [ia EXCEPT !.pc = "503"] /\ UNCHANGED message_db
       ELSE IF ia.context = "safety_check" /\ ~safety_check_image(seen).is_safe
       THEN /\ ia' = [ia EXCEPT !.pc = "notify", !.alert = ImageWarningAlert,
                                !.called = ia.parent_id]
            /\ UNCHANGED message_db
       ELSE /\ ia' = ILogged(ia, commitOk)
            /\ message_db' = IF commitOk THEN message_db + 1 ELSE message_db
    /\ UNCHANGED <<sa, aa>>
    /\ UNCHANGED <<session_db, alert_db, cq, eq>>
    /\ UNCHANGED <<nvars, svars>>

\* analyze_image, images.py lines 102-123 and 185-243: notify_parent returned, or
\* raised (nothing catches it here: 500). For the image that failed the safety
\* check the alert is saved with parent_notified=True and the request is answered
\* (a commit that raises is a 500); for the safety_check context the reply is
\* logged and sent, and the alert is not saved
INotified(notifyOk, commitOk) ==
    /\ ia.pc = "notify"
    /\ IF ~notifyOk
       THEN ia' = [ia EXCEPT !.pc = "500"] /\ UNCHANGED <<alert_db, message_db>>
       ELSE IF ia.alert = ImageUrgentAlert
       THEN LET row == AlertRow(ia.session_id, ia.alert, TRUE) IN
            /\ alert_db' = Commit(alert_db, row, commitOk)
            /\ ia' = IF Committed(row, commitOk)
                     THEN [ia EXCEPT !.pc = "responded", !.alert_id = Len(alert_db) + 1]
                     ELSE [ia EXCEPT !.pc = "500", !.db_failed = TRUE]
            /\ UNCHANGED message_db
       ELSE /\ ia' = ILogged(ia, commitOk)
            /\ message_db' = IF commitOk THEN message_db + 1 ELSE message_db
            /\ UNCHANGED alert_db
    /\ UNCHANGED <<sa, aa>>
    /\ UNCHANGED <<session_db, cq, eq>>
    /\ UNCHANGED <<nvars, svars>>

\* the request is over; the next upload can arrive
IDone ==
    /\ ia.pc \in {"404", "400", "503", "500", "responded"}
    /\ ia' = IdleImage
    /\ UNCHANGED <<sa, aa>>
    /\ UNCHANGED <<session_db, alert_db, message_db, cq, eq>>
    /\ UNCHANGED <<nvars, svars>>

\* a call of create_activity_alert, safety_service.py lines 437-486
ActivityCheck(duration_minutes) ==
    /\ aa' = [duration_minutes |-> duration_minutes,
              alert |-> create_activity_alert(duration_minutes)]
    /\ UNCHANGED <<sa, ia>>
    /\ UNCHANGED <<nvars, svars, apivars>>

AssessNext ==
    \/ \E message \in Messages : AStart(message)
    \/ \E g \in GenerateOutcomes : AClassified(g)
    \/ \E genOk \in BOOLEAN : AAssessed(genOk)
    \/ ADone

DbNext ==
    \/ \E parent_id \in Parents, valid \in BOOLEAN : CreateSession(parent_id, valid)
    \/ \E session_id \in Sessions : EndSession(session_id)
    \/ \E session_id \in Sessions, request \in CreateInputs : CreateAlert(session_id, request)
    \/ \E alert_id \in 1..MaxAlerts : ResolveAlert(alert_id)
    \/ Query

ChatNext ==
    \/ \E session_id \in Sessions, message \in ChatMessages : CStart(session_id, message)
    \/ \E g \in GenerateOutcomes : AClassified(g)
    \/ \E genOk \in BOOLEAN : AAssessed(genOk)
    \/ CTake
    \/ \E commitOk \in BOOLEAN : CNotified(commitOk)
    \/ \E commitOk \in BOOLEAN : CGenerated(commitOk)
    \/ CUpdated
    \/ CDone

PanicNext ==
    \/ \E session_id \in Sessions, commitOk \in BOOLEAN : EStart(session_id, commitOk)
    \/ \E parent_id \in Parents, commitOk \in BOOLEAN : ENoSession(parent_id, commitOk)
    \/ \E notifyOk \in BOOLEAN : ENotified(notifyOk)
    \/ EDone

ImageNext ==
    \/ \E session_id \in Sessions, tooLarge \in BOOLEAN, verifies \in BOOLEAN,
          context \in ImageContexts : IStart(session_id, tooLarge, verifies, context)
    \/ \E success \in BOOLEAN, seen \in VisionTexts, commitOk \in BOOLEAN :
          IAnalyzed(success, seen, commitOk)
    \/ \E notifyOk \in BOOLEAN, commitOk \in BOOLEAN : INotified(notifyOk, commitOk)
    \/ IDone

ApiNext == DbNext \/ ChatNext \/ PanicNext \/ ImageNext

\* one chat request whose pushes go through the notification service, beside the
\* handlers of the parent sockets
ChatPushNext ==
    \/ \E parent_id \in Parents, valid \in BOOLEAN : CreateSession(parent_id, valid)
    \/ \E session_id \in Sessions, message \in ChatMessages : CStart(session_id, message)
    \/ \E g \in PushOutcomes : AClassified(g)
    \/ \E genOk \in BOOLEAN : AAssessed(genOk)
    \/ CTake
    \/ CNotifyCall
    \/ \E commitOk \in PushCommits : CNotifyReturn(commitOk)
    \/ \E commitOk \in PushCommits : CGenerated(commitOk)
    \/ \E t \in Tasks : BCollect(t)
    \/ CUpdateCall
    \/ CUpdateReturn
    \/ \E w \in PConn, p \in Parents, ok \in BOOLEAN, addYield \in BOOLEAN :
          PConnect(w, p, ok, addYield)
    \/ \E w \in PConn : PPeerClose(w)
    \/ \E w \in PConn : PHandlerEnd(w)
    \/ \E t \in Tasks : BStep(t)

ActivityNext == \E duration_minutes \in Durations : ActivityCheck(duration_minutes)

NotifyNext ==
    \/ \E w \in PConn, p \in Parents, ok \in BOOLEAN, addYield \in BOOLEAN :
          PConnect(w, p, ok, addYield)
    \/ \E w \in PConn : PPeerClose(w)
    \/ \E w \in PConn : PHandlerEnd(w)
    \/ \E t \in Tasks, p \in Parents, kind \in {"alert", "activity_update"} : BStart(t, p, kind)
    \/ \E t \in Tasks : BStep(t)

RelayNext ==
    \/ \E w \in SConn, s \in Sessions : SOpen(w, s)
    \/ \E w \in SConn, m \in MsgIn, ok \in BOOLEAN, sendOk \in BOOLEAN : SRecv(w, m, ok, sendOk)
    \/ \E w \in SConn : SCleanup(w)
    \/ \E w \in SConn : SHandlerEnd(w)

Next == NotifyNext \/ RelayNext \/ AssessNext \/ ApiNext \/ ActivityNext \/ ChatPushNext

vars == <<active_connections, pws, precv, bt, connections, sws, srecv, nmsgs, slog, sa, ia, aa,
          session_db, alert_db, message_db, cq, eq>>

Spec == Init /\ [][Next]_vars

\* the notification service alone
SpecNotify == Init /\ [][NotifyNext]_vars

\* the signaling relay alone
SpecRelay == Init /\ [][RelayNext]_vars

\* the HTTP handlers and the datastore alone
SpecApi == Init /\ [][ApiNext]_vars

\* create_activity_alert beside the safety assessment of messages
SpecActivity == Init /\ [][ActivityNext \/ AssessNext]_vars

\* the safety assessment of messages alone
SpecAssess == Init /\ [][AssessNext]_vars

\* one chat request, the notification service and the parent sockets
SpecChatPush == Init /\ [][ChatPushNext]_vars

\* =================================================================== claims

Finished(t) == bt[t].pc \in {"returned", "raised"}

\* C1: when a broadcast to R is over, every connection that was registered for R
\* when it started and is still live has been sent the payload (a failing send
\* on another connection did not prevent it), and no connection whose send
\* failed is left in R's bucket.
BroadcastReachesAllAndPrunes ==
    \A t \in Tasks :
        Finished(t) =>
            /\ \A w \in bt[t].snap : SendOk(w) => w \in bt[t].delivered
            /\ bt[t].disconnected \cap bt[t].after = {}

\* C2: a broadcast never aborts with an error and attempts a send to every
\* connection that was registered when it started, whatever register or
\* unregister interleaves at its send suspension points.
BroadcastIteratesSnapshot ==
    \A t \in Tasks :
        Finished(t) =>
            /\ bt[t].pc = "returned"
            /\ bt[t].snap \subseteq (bt[t].delivered \cup bt[t].disconnected)

NoEmptyBucket(ac) == \A q \in DOMAIN ac : ac[q] # {}

\* C3: unregister is idempotent: in every reachable registry, for every recipient
\* and connection, a second disconnect changes nothing after the first, a
\* disconnect of a connection that is not registered changes nothing at all, and
\* the result has no empty bucket.
UnregisterIdempotent ==
    \A p \in Parents, w \in PConn :
        LET once == disconnect(active_connections, p, w) IN
        /\ disconnect(once, p, w) = once
        /\ NoEmptyBucket(once)
        /\ (w \notin Bucket(active_connections, p) => once = active_connections)
        /\ w \notin Bucket(once, p)

\* C3 witness: a socket was pruned by a broadcast and then disconnected again by
\* its own handler, while another socket of the same parent stays registered
UnregisterTwiceReached ==
    \E t \in Tasks, w \in PConn :
        /\ bt[t].pc = "returned"
        /\ w \in bt[t].disconnected
        /\ pws[w].st = "done"
        /\ Bucket(active_connections, bt[t].parent) # {}

\* ------------------------------------------------------------ signaling relay

Occupied(conns, s, r) == s \in DOMAIN conns /\ r \in DOMAIN conns[s]
Occupies(conns, s, r, w) == Occupied(conns, s, r) /\ conns[s][r] = w
Occupant(conns, s, r) == IF Occupied(conns, s, r) THEN conns[s][r] ELSE NoConn
RoleNames == {"child", "parent"}
Objects == MsgIn \ {Malformed}
\* the sockets whose handler is in its receive loop
Receiving == {w \in SConn : sws[w].st = "open"}

\* C4: once a connection y has been bound into a role slot, every message relayed
\* to that role is sent to y for as long as y's handler runs and no later
\* connection has taken the slot, and a connection that does not hold the target
\* slot (an evicted one in particular) receives nothing, also after the evicted
\* connection has sent more messages or has disconnected.
EvictionRetargetsRelay ==
    \A z \in Receiving, m \in Objects :
        LET h == Handle(z, m, TRUE, TRUE)
            s == sws[z].session
            to == Opposite(h.role) IN
        (m.type \in Relayed /\ Truthy(h.role))
        => \A y \in SConn \ {z} :
              IF /\ sws[y].st = "open" /\ sws[y].session = s /\ sws[y].role = to
                 /\ (Occupies(connections, s, to, y) \/ ~Occupied(connections, s, to))
              THEN h.sent[y] = Append(srecv[y], m)
              ELSE ~Occupies(h.conns, s, to, y) => h.sent[y] = srecv[y]

\* C5: when the connection bound in a role slot sends call-ended, the connection in
\* the opposite slot is sent the call-ended notice, and when the sender's handler
\* has finished the session has no bound role left.
CallEndClearsSession ==
    \A w \in SConn :
        LET s == sws[w].session
            r == sws[w].role
            y == Occupant(connections, s, Opposite(r)) IN
        (r \in RoleNames /\ Occupies(connections, s, r, w))
        => /\ \A m \in Objects :
                (sws[w].st = "open" /\ m.type = "call-ended" /\ y # NoConn
                 /\ sws[y].st = "open")
                => LET h == Handle(w, m, TRUE, TRUE) IN
                   /\ h.st = "break"
                   /\ Len(h.sent[y]) = Len(srecv[y]) + 1
                   /\ h.sent[y][Len(h.sent[y])].type = "call-ended"
           /\ sws[w].st = "break" => s \notin DOMAIN Finally(connections, s, r)

\* C6: when the handler of the connection held in a role slot ends because the
\* channel closed, that slot is empty afterwards, and no session entry of the map
\* is ever an empty slot map.
DisconnectClearsSlot ==
    /\ \A s \in DOMAIN connections : DOMAIN connections[s] # {}
    /\ \A w \in Receiving, r \in RoleNames :
          Occupies(connections, sws[w].session, r, w)
          => LET after == Finally(connections, sws[w].session, sws[w].role) IN
             /\ ~Occupied(after, sws[w].session, r)
             /\ \A s \in DOMAIN after : DOMAIN after[s] # {}

\* C7: every offer, answer or ice-candidate sent by a connection that holds a role
\* slot, while the opposite slot holds a connection whose handler runs and the send
\* succeeds, is appended unchanged to what the opposite connection receives.
RelayRoundTrip ==
    \A w \in Receiving, m \in Objects, r \in RoleNames :
        LET s == sws[w].session
            y == Occupant(connections, s, Opposite(r)) IN
        (/\ m.type \in Relayed
         /\ Occupies(connections, s, r, w)
         /\ y # NoConn /\ y # w /\ sws[y].st = "open")
        => Handle(w, m, TRUE, TRUE).sent[y] = Append(srecv[y], m)

\* C8: the message that establishes a connection's role binds it into the child
\* slot for an offer, the parent slot for an answer, and otherwise the slot of the
\* stated role, and that slot is the role the handler uses from then on.
RoleInference ==
    \A w \in Receiving, m \in Objects, sendOk \in BOOLEAN :
        Binds(sws[w].role, m)
        => LET h == Handle(w, m, TRUE, sendOk)
               slot == IF m.type = "offer" THEN "child"
                       ELSE IF m.type = "answer" THEN "parent" ELSE m.role IN
           /\ Occupies(h.conns, sws[w].session, slot, w)
           /\ h.role = slot

\* the map is the same except that w now holds slot r of session s
SameExceptBound(conns, conns2, s, r, w) ==
    /\ Occupies(conns2, s, r, w)
    /\ DOMAIN conns2 = (DOMAIN conns) \cup {s}
    /\ \A x \in DOMAIN conns2, q \in RoleNames :
          (x # s \/ q # r) => Occupant(conns2, x, q) = Occupant(conns, x, q)

Unrecognized(m) == m = Malformed \/ m.type \notin {"offer", "answer", "ice-candidate",
                                                    "call-ended", "heartbeat"}

RelayFailureAbsorbed ==
    \A w \in Receiving, m \in Objects, ok \in BOOLEAN, sendOk \in BOOLEAN :
        LET h == Handle(w, m, ok, sendOk)
            s == sws[w].session IN
        "failed" \in h.log
        => /\ h.st = "open"
           /\ h.sent = srecv
           /\ (sws[w].role # None => h.role = sws[w].role)
           /\ \A r \in RoleNames :
                 (Occupies(connections, s, r, w) \/ (Binds(sws[w].role, m) /\ r = SlotFor(m)))
                 => Occupies(h.conns, s, r, w)

\* C11 witness: a sender whose relay failed earlier is still in its loop, still in
\* its slot, and its third message has been delivered to the opposite connection
RelayFailedThenDelivered ==
    /\ nmsgs = 3
    /\ \E w \in SConn, y \in SConn, r \in RoleNames :
          /\ w # y
          /\ "failed" \in slog[w]
          /\ sws[w].st = "open"
          /\ Occupies(connections, sws[w].session, r, w)
          /\ Occupies(connections, sws[w].session, Opposite(r), y)
          /\ Len(srecv[y]) = 1
          /\ "sdp" \in DOMAIN srecv[y][1]
          /\ srecv[y][1].sdp = [from |-> w, n |-> 3]

\* C12: no buffering. A signaling message handled while the opposite slot is empty
\* is dropped (logged, nothing sent to anyone); and whatever a handler step sends
\* to a connection is the message of that very step (or the call-ended notice it
\* triggers), sent to a connection that holds a slot at that moment, so that a
\* connection binding later gets nothing that was sent before. The heartbeat-ack
\* to the sender itself is the only other send.
NoBuffering ==
    \A w \in Receiving, m \in Objects, ok \in BOOLEAN, sendOk \in BOOLEAN :
        LET h == Handle(w, m, ok, sendOk)
            s == sws[w].session IN
        /\ (/\ m.type \in Relayed /\ Truthy(h.role) /\ h.st = "open"
            /\ ~Occupied(h.conns, s, Opposite(h.role)))
           => h.sent = srecv /\ h.log = {"dropped"}
        /\ \A y \in SConn :
              h.sent[y] # srecv[y]
              => \/ /\ y = w /\ m.type = "heartbeat"
                    /\ h.sent[y] = Append(srecv[y], HeartbeatAck)
                 \/ /\ \E r \in RoleNames : Occupies(h.conns, s, r, y)
                    /\ \/ m.type \in Relayed /\ h.sent[y] = Append(srecv[y], m)
                       \/ m.type = "call-ended" /\ h.sent[y] = Append(srecv[y], CallEnded)

\* C12 witness: the child's message was dropped for want of a parent, the parent
\* bound afterwards and has received nothing
DroppedThenBound ==
    /\ nmsgs = 2
    /\ \E w \in SConn, y \in SConn :
          /\ w # y
          /\ "dropped" \in slog[w]
          /\ sws[w].role = "child" /\ Occupies(connections, sws[w].session, "child", w)
          /\ sws[y].st = "open" /\ Occupies(connections, sws[w].session, "parent", y)
          /\ srecv[y] = << >>

\* the signaling messages in what y was sent (acks and call-ended notices carry no
\* payload)
Signaling(y) == {i \in DOMAIN srecv[y] : "sdp" \in DOMAIN srecv[y][i]}

\* C13: per-pair ordering: in what any connection has been sent, the messages of
\* one sender appear in the order in which that sender sent them, each once.
PerPairOrder ==
    \A y \in SConn : \A i \in Signaling(y), j \in Signaling(y) :
        (i < j /\ srecv[y][i].sdp.from = srecv[y][j].sdp.from)
        => srecv[y][i].sdp.n < srecv[y][j].sdp.n

\* C13 witness: a connection has been sent two messages of the same sender
TwoFromOneSender ==
    \E y \in SConn : \E i \in Signaling(y), j \in Signaling(y) :
        /\ i < j
        /\ srecv[y][i].sdp.from = srecv[y][j].sdp.from
        /\ srecv[y][i].sdp.from # y

\* the frames w has been sent
Frames(w) == {precv[w][i] : i \in DOMAIN precv[w]}

\* a broadcast that found no bucket for its recipient
Missed(t) == bt[t].pc = "returned" /\ bt[t].snap = {}

\* C14: no queuing in the broadcaster: a broadcast to a recipient that has no
\* bucket returns in that step, sends nothing and leaves the registry and every
\* socket as they were; and no connection, whenever it registers, is ever sent the
\* payload of such a broadcast.
NoQueuing ==
    /\ [](\A t \in Tasks : Missed(t) => \A w \in PConn : Payload(t) \notin Frames(w))
    /\ [][\A t \in Tasks :
            (/\ bt[t].pc = "idle" /\ bt'[t].pc # "idle"
             /\ bt'[t].parent \notin DOMAIN active_connections)
            => /\ Missed(t)'
               /\ UNCHANGED <<active_connections, pws, precv>>]_vars

\* C14 witness: the broadcast found nobody, a connection of that recipient
\* registered afterwards and has been sent nothing
RegisteredAfterMiss ==
    \E t \in Tasks, w \in PConn :
        /\ Missed(t)
        /\ pws[w].st = "open" /\ pws[w].alive
        /\ w \in Bucket(active_connections, bt[t].parent)
        /\ precv[w] = << >>

\* ------------------------------------------------------------ safety service

\* the call has the classifier's answer and the mapped severity
Classified == sa.pc \in {"assessing", "returned", "raised"}

Levels == <<"none", "low", "medium", "high", "critical">>
LevelRank(l) == CHOOSE i \in DOMAIN Levels : Levels[i] = l
SeverityRank(a) == CHOOSE i \in 1..4 : <<INFO, WARNING, URGENT, EMERGENCY>>[i] = a
KnownLevel(d) == \E i \in DOMAIN Levels : Levels[i] = d.concern_level

\* the severity the mapping rule gives, read as a table: an urgent keyword gives
\* emergency; otherwise the level decides, and the concern keyword lifts none
\* and low to warning
SeverityTable(urgent, concern, level) ==
    IF urgent THEN EMERGENCY
    ELSE CASE level = "critical" -> EMERGENCY
           [] level = "high" -> URGENT
           [] level = "medium" -> WARNING
           [] level \in {"low", "none"} -> IF concern THEN WARNING ELSE INFO

\* C15: for every combination of the two keyword flags and a classifier concern
\* level among none, low, medium, high, critical, the mapped severity is: emergency
\* for an urgent keyword or critical, else urgent for high, else warning for
\* medium or a concern keyword, else info.
SeverityMapping ==
    (Classified /\ KnownLevel(sa.safety_analysis))
    => sa.alert_level = SeverityTable(sa.has_urgent_keyword, sa.has_concern_keyword,
                                      sa.safety_analysis.concern_level)

\* C15 witness: first match wins: a concern keyword and the level high give urgent
HighBeatsConcernKeyword ==
    /\ sa.pc = "returned"
    /\ ~sa.has_urgent_keyword /\ sa.has_concern_keyword
    /\ sa.safety_analysis.concern_level = "high"
    /\ sa.alert.level = URGENT

\* C16: severity is monotone in the concern level: with the keyword flags of the
\* message at hand, a classifier answer with a higher concern level than the one
\* received never maps to a lower severity, and one with a lower level never to a
\* higher severity.
SeverityMonotone ==
    (Classified /\ KnownLevel(sa.safety_analysis))
    => \A i \in DOMAIN Levels :
          LET other == determine_alert_level(
                           [sa.safety_analysis EXCEPT !.concern_level = Levels[i]],
                           sa.has_urgent_keyword, sa.has_concern_keyword)
              here == LevelRank(sa.safety_analysis.concern_level) IN
          /\ (here < i => SeverityRank(sa.alert_level) <= SeverityRank(other))
          /\ (i < here => SeverityRank(other) <= SeverityRank(sa.alert_level))

\* C16 witness: a message without keywords classified medium has been mapped to
\* warning (above info for the lower levels, below urgent for high)
MediumMapped ==
    /\ sa.pc = "returned"
    /\ ~sa.has_urgent_keyword /\ ~sa.has_concern_keyword
    /\ sa.safety_analysis.concern_level = "medium"
    /\ sa.alert.level = WARNING

\* the classifier call failed: it raised, or its text is not a JSON object
ClassifierFailed == sa.outcome \in {"exception", "not_json", "not_object"}

\* C17 (as claimed): when the classifier call fails, the Alert produced, if any, has
\* severity info and requires_action false, whatever keywords the message has.
FallbackAlertIsInfo ==
    (sa.pc = "returned" /\ ClassifierFailed /\ sa.alert # NoAlert)
    => sa.alert.level = INFO /\ ~sa.alert.requires_action

\* the messages of the model that contain an urgent keyword, and those that
\* contain a concern keyword, read off the two lists
UrgentMessages == {MsgFire, Msg911}
ConcernMessages == {MsgFell, MsgFire, MsgTummy}

\* C17 (amended): when the classifier call fails, the call does not raise and the
\* keyword scan alone decides: a message with an urgent keyword yields an Alert of
\* severity emergency with requires_action true, one with only a concern keyword an
\* Alert of severity warning with requires_action false, and any other message no
\* Alert.
FallbackAlertFromKeywords ==
    ClassifierFailed
    => /\ sa.pc # "raised"
       /\ sa.pc = "assessing" => sa.message \in UrgentMessages \cup ConcernMessages
       /\ sa.pc = "returned"
          => IF sa.message \in UrgentMessages
             THEN /\ sa.alert # NoAlert
                  /\ sa.alert.level = EMERGENCY /\ sa.alert.requires_action
             ELSE IF sa.message \in ConcernMessages
             THEN /\ sa.alert # NoAlert
                  /\ sa.alert.level = WARNING /\ ~sa.alert.requires_action
             ELSE sa.alert = NoAlert /\ ~sa.requires_parent_notification

\* C17 witness: the classifier raised on a message with an upper-case urgent
\* keyword, and the emergency alert was produced
FallbackEmergency ==
    /\ sa.pc = "returned"
    /\ sa.outcome = "exception"
    /\ sa.message = MsgFire
    /\ sa.alert.level = EMERGENCY

\* a classifier answer that is an object with the expected fields
WellFormed(d) ==
    /\ KnownLevel(d)
    /\ d.parent_alert \in {"true", "false"}
    /\ d.is_safe \in {"true", "false"}
    /\ d.reason \notin {None, Absent}
    /\ d.recommended_response \notin {None, Absent}

\* C18: for every classifier outcome that is a failure (exception or timeout, text
\* that is not JSON, JSON that is not an object with the expected fields), the
\* classification yields concern_level none, is_safe true and parent_alert false,
\* and nothing is raised to the caller.
ClassifierFailureAbsorbed ==
    (Classified /\ (ClassifierFailed \/ ~WellFormed(sa.safety_analysis)))
    => /\ Get(sa.safety_analysis, "concern_level", "none") = "none"
       /\ Get(sa.safety_analysis, "is_safe", "true") = "true"
       /\ ~PyTrue(GetOrNone(sa.safety_analysis, "parent_alert"))
       /\ sa.pc # "raised"

\* C19: assess_message_safety instantiates an Alert if and only if the classifier
\* result has parent_alert set or the mapped severity is above info, and
\* requires_parent_notification says whether there is an Alert.
AlertIffRequested ==
    sa.pc \in {"returned", "raised"}
    => /\ (sa.alert # NoAlert)
          <=> (\/ sa.safety_analysis.parent_alert = "true"
               \/ sa.alert_level \in {WARNING, URGENT, EMERGENCY})
       /\ sa.requires_parent_notification <=> (sa.alert # NoAlert)

\* C20: every Alert instantiated from an inbound message or image has
\* requires_action true only if its level is urgent or emergency.
ActionOnlyWhenUrgent ==
    \A alert \in {sa.alert, ia.alert} \ {NoAlert} :
        alert.requires_action => alert.level \in {URGENT, EMERGENCY}

\* ------------------------------------------------ HTTP handlers and datastore

\* the handler of a request that raised an alert has ended
ChatOver == cq.pc = "responded"
PanicOver == eq.pc = "responded"
ImageOver == ia.pc \in {"responded", "500", "503"}

\* the alert of request r is a row of the table, saved as notified
SavedNotified(r) ==
    /\ r.alert_id \in DOMAIN alert_db
    /\ alert_db[r.alert_id].alert_level = r.alert.level
    /\ alert_db[r.alert_id].parent_notified

\* C21: every Alert handed to the broadcaster from the chat, image and panic
\* paths is also persisted with notified = true once the handler has ended (the
\* datastore accepting the write), whether or not a connection was live or the
\* delivery failed.
HandedAlertsArePersisted ==
    /\ (ChatOver /\ cq.called # 0 /\ ~cq.db_failed) => SavedNotified(cq)
    /\ (PanicOver /\ eq.called # 0 /\ ~eq.db_failed) => SavedNotified(eq)
    /\ (ImageOver /\ ia.called # 0 /\ ~ia.db_failed) => SavedNotified(ia)

\* C22: on every path that raises an alert (chat, image, panic button), the
\* broadcast to the recipient has been attempted when the handler ends, also when
\* persisting the alert failed.
PersistFailureKeepsDelivery ==
    /\ (ChatOver /\ cq.db_failed) => cq.called = cq.parent_id
    /\ (PanicOver /\ eq.db_failed) => eq.called = eq.parent_id
    /\ (ImageOver /\ ia.db_failed) => ia.called = ia.parent_id

\* C23: resolved only changes from false to true and only in a step of
\* resolve_alert for that row; rows are never removed, a new row is unresolved, and
\* no step (create, notify, resolve, resolve again, queries) sets a resolved row
\* back to unresolved.
ResolvedOnlyForward ==
    [][ /\ \A i \in DOMAIN alert_db :
              /\ i \in DOMAIN alert_db'
              /\ alert_db[i].resolved => alert_db'[i].resolved
              /\ alert_db'[i].resolved # alert_db[i].resolved => ResolveAlert(i)
        /\ \A i \in (DOMAIN alert_db') \ (DOMAIN alert_db) : ~alert_db'[i].resolved
      ]_vars

\* C23 witness: an alert that was saved as notified is resolved, and an alert
\* created after it is still unresolved
NotifiedThenResolved ==
    /\ Len(alert_db) = 2
    /\ alert_db[1].parent_notified /\ alert_db[1].resolved
    /\ ~alert_db[2].resolved

\* the chat request was handled (not rejected) and the handler has ended
ChatHandled == cq.pc = "responded" /\ cq.status \in {200, 500}

\* C24: the message "I fell and I'm bleeding" is mapped, whatever the classifier
\* returns, to an Alert of severity emergency with requires_action = true, and a
\* broadcast to the session's recipient is attempted.
FellIsEmergency ==
    (ChatHandled /\ cq.message = MsgFell)
    => /\ cq.alert # NoAlert
       /\ cq.alert.level = EMERGENCY /\ cq.alert.requires_action
       /\ cq.called = cq.parent_id

\* the chat request for "I'm a little bored" got the concern level none and no
\* request to notify
BoredAndNone ==
    /\ cq.message = MsgBored
    /\ cq.pc \in {"generate", "update", "responded"}
    /\ cq.safety_status = "none"
    /\ cq.alert = NoAlert

\* C25 (as claimed): for "I'm a little bored" with concern_level none and no
\* notification requested, no Alert is instantiated and no broadcast call to the
\* recipient is made.
BoredMakesNoCall ==
    /\ (cq.pc = "assess" /\ sa.message = MsgBored /\ Classified
        /\ Get(sa.safety_analysis, "concern_level", "none") = "none"
        /\ ~PyTrue(GetOrNone(sa.safety_analysis, "parent_alert")))
       => sa.alert = NoAlert
    /\ BoredAndNone => cq.called = 0 /\ cq.updated = 0

\* C25 (amended): for "I'm a little bored" with concern_level none and no
\* notification requested, no Alert is instantiated, nothing is saved as an alert
\* and notify_parent is not called; the only push to the recipient is the
\* activity_update that every handled chat request ends with.
BoredMakesNoAlertCall ==
    /\ (cq.pc = "assess" /\ sa.message = MsgBored /\ Classified
        /\ Get(sa.safety_analysis, "concern_level", "none") = "none"
        /\ ~PyTrue(GetOrNone(sa.safety_analysis, "parent_alert")))
       => /\ sa.pc = "returned"
          /\ sa.alert = NoAlert /\ ~sa.requires_parent_notification
    /\ BoredAndNone
       => /\ cq.called = 0 /\ cq.alert_id = 0
          /\ cq.updated = (IF cq.pc = "generate" \/ cq.status = 500 THEN 0
                           ELSE cq.parent_id)

\* C25 witness: the request for the bored message was answered without an alert,
\* after the activity update
BoredAnswered ==
    /\ BoredAndNone
    /\ cq.pc = "responded" /\ cq.status = 200
    /\ cq.updated = cq.parent_id
    /\ alert_db = << >>

\* C26: in every reachable state no recipient key maps to an empty bucket, and
\* is_parent_connected(R) is true exactly when at least one connection is
\* registered for R.
RegistryInvariant ==
    /\ \A p \in DOMAIN active_connections : \E w \in PConn : w \in active_connections[p]
    /\ \A p \in Parents :
          is_parent_connected(active_connections, p)
          <=> (\E w \in PConn : w \in Bucket(active_connections, p))

\* C26 witness: the last connection of a parent was removed and its bucket with
\* it, while the other parent is connected
LastConnectionRemoved ==
    \E w \in PConn, p \in Parents :
        /\ pws[w].st = "done" /\ ~pws[w].alive
        /\ pws[w].parent \notin DOMAIN active_connections
        /\ p # pws[w].parent
        /\ is_parent_connected(active_connections, p)

\* C27: a client of the per-recipient channel is registered from the moment its
\* connect completes until it disconnects, and once its handler has ended (by
\* channel close or by an error, a failed connect included) the connection is in
\* no bucket of the registry.
SubscriptionLifecycle ==
    \A w \in PConn :
        /\ (pws[w].st = "open" /\ pws[w].alive)
           => w \in Bucket(active_connections, pws[w].parent)
        /\ pws[w].st = "done"
           => \A p \in DOMAIN active_connections : w \notin active_connections[p]

\* C27 witness: one handler ended after a failed connect, one after its client
\* went away, and a third client is registered beside them
HandlersEndedOneRegistered ==
    \E u \in PConn, v \in PConn, w \in PConn :
        /\ pws[u].st = "done" /\ pws[u].alive = FALSE /\ u < v
        /\ pws[v].st = "done" /\ v < w
        /\ pws[w].st = "open" /\ pws[w].alive
        /\ pws[w].parent = pws[v].parent
        /\ w \in Bucket(active_connections, pws[w].parent)

\* C28: create_activity_alert never invokes the classifier and yields an Alert
\* exactly when the duration is strictly more than 120 minutes; every Alert it
\* yields has level info and requires_action = false.
ActivityAlertAboveCeiling ==
    /\ [](/\ (aa.alert # NoAlert) <=> (aa.duration_minutes > 120)
          /\ aa.alert # NoAlert
             => aa.alert.level = "info" /\ ~aa.alert.requires_action)
    /\ [][aa' # aa => sa' = sa]_vars

\* C28 witness: a call with exactly 120 minutes yielded no alert while a message
\* assessment was waiting for the classifier
NoAlertAtCeiling ==
    /\ aa.duration_minutes = 120
    /\ aa.alert = NoAlert
    /\ sa.pc = "classifying"

\* C29: a chat request for a session id that does not exist is rejected with 404,
\* one for a session that is not active with 400, before any classification: no
\* Alert is created, nothing is broadcast and no message is persisted.
RejectedBeforeClassification ==
    /\ [][(cq.pc = "idle" /\ cq'.pc # "idle")
          => LET s == cq'.session_id
                 rejected == /\ cq'.pc = "responded"
                             /\ cq'.alert = NoAlert /\ cq'.called = 0 /\ cq'.updated = 0
                             /\ UNCHANGED <<sa, alert_db, message_db, session_db>> IN
             /\ s \notin DOMAIN session_db => cq'.status = 404 /\ rejected
             /\ (s \in DOMAIN session_db /\ ~session_db[s].is_active)
                => cq'.status = 400 /\ rejected
         ]_vars
    /\ [][cq.status \in {400, 404} => cq' = IdleChat \/ UNCHANGED cq]_vars

\* C29 witness: a chat request for an ended session was rejected with 400 while
\* the tables hold an alert and no message
ChatRejectedInactive ==
    /\ cq.pc = "responded" /\ cq.status = 400
    /\ alert_db # << >>
    /\ message_db = 0

\* C30: a session is active when created; after end_session it is reported with
\* is_active = false, and no later operation (ending it again, chat or emergency
\* requests included) makes it active again.
EndedStaysEnded ==
    [][ /\ \A s \in (DOMAIN session_db') \ (DOMAIN session_db) : session_db'[s].is_active
        /\ \A s \in DOMAIN session_db :
              /\ s \in DOMAIN session_db'
              /\ ~session_db[s].is_active => ~session_db'[s].is_active
              /\ EndSession(s) => ~session_db'[s].is_active
      ]_vars

\* C30 witness: after the session was ended a panic-button request for it was
\* answered and a chat request for it was rejected, and it is still inactive
EndedThenUsed ==
    \E s \in DOMAIN session_db :
        /\ ~session_db[s].is_active
        /\ \E i \in DOMAIN alert_db :
              alert_db[i].session_id = s /\ alert_db[i].alert_level = EMERGENCY
        /\ cq.pc = "responded" /\ cq.status = 400 /\ cq.session_id = s

\* the panic request of trigger_emergency that has been answered
TriggerOver == PanicOver /\ eq.session_id # NullId

Ends(w) == sws[w].st # "done" /\ sws'[w].st = "done"

\* C32: when the handler of a connection ends, every role slot that holds another
\* connection keeps its occupant: a disconnect clears a role slot only if the slot
\* holds the disconnecting connection.
DisconnectKeepsOccupant ==
    [][\A w \in SConn :
          Ends(w) => \A s \in Sessions, r \in RoleNames :
                        (Occupied(connections, s, r) /\ connections[s][r] # w)
                        => Occupies(connections', s, r, connections[s][r])]_vars

\* the connections that joined session s
Joined(s) == {w \in SConn : sws[w].st # "new" /\ sws[w].session = s}

\* C33: once the handler of every connection that joined a session has ended, the
\* map has no entry for the session, whatever first message the connections sent.
NoLeakedSlots ==
    \A s \in Sessions :
        (\A w \in Joined(s) : sws[w].st = "done") => s \notin DOMAIN connections

\* C34: a message received from a connection that no role has been established for,
\* and that does not establish one, is sent to no other connection; a call-ended
\* received before any role was established is delivered to nobody.
UnboundSendsNothing ==
    \A w \in Receiving, m \in Objects, ok \in BOOLEAN, sendOk \in BOOLEAN :
        (/\ sws[w].role = None /\ ~Binds(None, m) /\ nmsgs < MaxMsgs
         /\ \A r \in RoleNames : ~Occupies(connections, sws[w].session, r, w))
        => LET h == Handle(w, Stamp(m, w, nmsgs + 1), ok, sendOk) IN
           \A y \in SConn \ {w} : h.sent[y] = srecv[y]

\* C35: an offer, answer or ice-candidate is relayed to the opposite role only when
\* its sender occupies a role slot of the session: what a connection sends after
\* it was evicted from its slot is delivered to nobody.
OnlyOccupantRelays ==
    \A w \in Receiving, m \in Objects, ok \in BOOLEAN, sendOk \in BOOLEAN :
        LET h == Handle(w, Stamp(m, w, nmsgs + 1), ok, sendOk) IN
        (/\ m.type \in Relayed
         /\ \A r \in RoleNames : ~Occupies(h.conns, sws[w].session, r, w))
        => \A y \in SConn \ {w} : h.sent[y] = srecv[y]

\* connection w registered under recipient p
RegisteredUnder(w, p) == pws[w].st # "new" /\ pws[w].parent = p

\* a step of notify_parent / send_activity_update (connection handlers change pws)
BroadcastStep(t) == pws' = pws /\ bt'[t] # bt[t]

\* C36: a broadcast addressed to recipient R sends only to connections registered
\* under R: no connection registered under another recipient is ever sent its
\* payload, and no step of the broadcast, its pruning included, changes the bucket
\* of another recipient.
RecipientIsolation ==
    /\ [](\A t \in Tasks, w \in PConn :
             Payload(t) \in Frames(w) => RegisteredUnder(w, bt[t].parent))
    /\ [][\A t \in Tasks :
            BroadcastStep(t)
            => /\ \A w \in PConn :
                    precv'[w] # precv[w] => RegisteredUnder(w, bt'[t].parent)
               /\ \A q \in Parents \ {bt'[t].parent} :
                    /\ q \in DOMAIN active_connections' <=> q \in DOMAIN active_connections
                    /\ Bucket(active_connections', q) = Bucket(active_connections, q)]_vars

\* C36 witness: a broadcast delivered to one connection of its recipient and pruned
\* another while a connection of the other recipient stayed registered and was
\* sent nothing
OtherRecipientUntouched ==
    \E t \in Tasks, q \in Parents :
        /\ bt[t].pc = "returned" /\ q # bt[t].parent
        /\ bt[t].delivered # {} /\ bt[t].disconnected # {}
        /\ bt[t].disconnected \cap bt[t].after = {}
        /\ q \in DOMAIN active_connections
        /\ \A w \in active_connections[q] : precv[w] = << >>

\* C37: relay_message leaves the session map as it found it in every outcome
\* (delivered, opposite role absent, unknown session, send failed): whenever a
\* received offer, answer or ice-candidate is passed to relay_message, the map
\* after the iteration is the map the call was made with (the map after the
\* binding of the sender, if this message bound it); the connection whose send
\* failed stays in its slot and no session entry is created.
RelayLeavesMap ==
    \A w \in Receiving, m \in Objects, sendOk \in BOOLEAN :
        LET s == sws[w].session
            h == Handle(w, m, TRUE, sendOk)
            before == IF Binds(sws[w].role, m) THEN bind(connections, s, SlotFor(m), w)
                      ELSE connections
            to == Opposite(h.role) IN
        (m.type \in Relayed /\ Truthy(h.role))
        => /\ RelayOutcome(before, s, to, sendOk) \in {"relayed", "dropped", "failed"}
           /\ h.conns = before
           /\ h.st = "open"

\* C37 witness: a relayed message was dropped for want of a session entry or a
\* recipient, another one failed in the send, and the recipient of the failed
\* send, which has received nothing, still holds its slot
FailedRecipientStillBound ==
    \E w \in SConn, v \in SConn, y \in SConn :
        /\ "dropped" \in slog[v] /\ "failed" \in slog[w] /\ y # w
        /\ sws[w].role \in RoleNames
        /\ Occupies(connections, sws[w].session, Opposite(sws[w].role), y)
        /\ srecv[y] = << >>

\* the frames of the given type among those w has been sent, by position
Positions(w, type) == {i \in DOMAIN precv[w] : precv[w][i].type = type}

\* w was registered for the parent when the chat request arrived and its handler
\* and peer are still there
LiveThroughout(w) == w \in cq.live /\ pws[w].st = "open" /\ pws[w].alive

\* C38: within the handling of one chat message that raises an Alert, the alert
\* broadcast is issued before the activity_update broadcast (no activity_update
\* frame is sent while notify_parent has not been come back from), and a
\* connection that stays live throughout has received the alert before it
\* receives the activity_update.
AlertBeforeUpdate ==
    cq.alert # NoAlert
    => /\ cq.pc = "notify" => \A w \in PConn : Positions(w, "activity_update") = {}
       /\ \A w \in PConn :
             (LiveThroughout(w) /\ Positions(w, "activity_update") # {})
             => \E i \in Positions(w, "alert") :
                   \A j \in Positions(w, "activity_update") : i < j

====
